---------------------------- MODULE Spec2Model ----------------------------
(***************************************************************************)
(* A model of the binary core of RPFM:                                     *)
(*   - the primitive decoder of rpfm_common (decoder.rs),                  *)
(*   - the PFH4 container codec of rpfm_lib (pack_versions/pfh4.rs),       *)
(*   - the table and container optimizer of rpfm_extensions                *)
(*     (optimizer/mod.rs).                                                 *)
(* Byte strings are sequences of naturals in 0..255, text is a sequence of *)
(* Unicode scalar values, and every cell value is a sequence of naturals,  *)
(* so that values of different kinds can be compared.                      *)
(***************************************************************************)
EXTENDS Integers, Sequences, FiniteSets, TLC

VARIABLES
    \* primitive decoder: the byte source, the caller's cursor, the last call, its result
    buffer, index, call, result,
    \* table optimizer: the table, the reference dataset, the last return value,
    \* and the rows as given with the outcome of every run so far
    table, reference, tableRet, tableHist,
    \* container optimizer: the Pack, the dependencies, the outcome of Pack::optimize
    optPack, dependencies, optOut,
    \* container codec: the Pack in memory, the output buffer, what write_pfh4
    \* returned, what read_pfh4 returned and left in the Pack it was called on
    pack, stream, writeOut, readPack, codecPc

decoderVars == <<buffer, index, call, result>>
tableVars == <<table, reference, tableRet, tableHist>>
optVars == <<optPack, dependencies, optOut>>
codecVars == <<pack, stream, writeOut, readPack, codecPc>>
vars == <<decoderVars, tableVars, optVars, codecVars>>

-----------------------------------------------------------------------------
(* Bounds of the model. *)

\* longest byte source given to the sized decoders
MaxBufLen == 4
\* longest byte source given to the integer decoders
MaxIntLen == 5
\* most rows of a table, and most rows of its reference dataset
MaxRows == 3
MaxRefRows == 2
\* most runs of the optimizer on one table
MaxRuns == 2
\* longest payload after the length of a length-prefixed string
MaxPayload == 6
MaxIntegerBytes == 8
\* most files of a Pack given to the container optimizer
MaxPackFiles == 3
\* most files and most dependencies of a Pack given to the codec
MaxFiles == 2
MaxDeps == 2

-----------------------------------------------------------------------------
(* Generic helpers. *)

Min(a, b) == IF a < b THEN a ELSE b

\* all sequences over S of length at most n
SeqsUpTo(S, n) == UNION {[1..k -> S] : k \in 0..n}

\* the slice s[from..to] of Rust: zero-based, `to` excluded
Slice(s, from, to) == SubSeq(s, from + 1, to)

RECURSIVE Pow(_, _)
Pow(b, e) == IF e = 0 THEN 1 ELSE b * Pow(b, e - 1)

\* bitwise operators on naturals, bit by bit
RECURSIVE BitAnd(_, _)
BitAnd(a, b) ==
    IF a = 0 \/ b = 0 THEN 0
    ELSE (IF a % 2 = 1 /\ b % 2 = 1 THEN 1 ELSE 0) + 2 * BitAnd(a \div 2, b \div 2)

RECURSIVE BitOr(_, _)
BitOr(a, b) ==
    IF a = 0 THEN b
    ELSE IF b = 0 THEN a
    ELSE (IF a % 2 = 1 \/ b % 2 = 1 THEN 1 ELSE 0) + 2 * BitOr(a \div 2, b \div 2)

\* A u32 is kept as two 16-bit halves <<high, low>>, its value being
\* high * 65536 + low, so that every bit of the 32-bit word is represented.
Half == 256 * 256
U32_BITS == 32
U32Of(n) == <<(n \div Half) % Half, n % Half>>

\* u32 `<<` by n < 16 bits: the bits shifted out of the 32-bit word are lost
U32Shl(x, n) ==
    LET low == x[2] * Pow(2, n)
        high == x[1] * Pow(2, n) + low \div Half
    IN <<high % Pow(2, U32_BITS - 16), low % Half>>

\* u32 `|`
U32Or(x, y) == <<BitOr(x[1], y[1]), BitOr(x[2], y[2])>>

\* Iterator::position(|x| *x == 0): the first zero-based position of a zero
\* in s at or after the one-based position i, or -1
RECURSIVE PositionOfZero(_, _)
PositionOfZero(s, i) ==
    IF i > Len(s) THEN -1
    ELSE IF s[i] = 0 THEN i - 1
    ELSE PositionOfZero(s, i + 1)

\* Iterator::step_by(2): the elements at the even zero-based positions
StepBy2(s) == [i \in 1..((Len(s) + 1) \div 2) |-> s[2 * i - 1]]

-----------------------------------------------------------------------------
(* Results of a decoder call: a value, a typed error, or a panic (an abort  *)
(* of the thread on an out-of-range slice index).                          *)

Ok(v, n) == [kind |-> "ok", err |-> "", val |-> v, size |-> n]
Err(e) == [kind |-> "err", err |-> e, val |-> <<>>, size |-> 0]
Panic == [kind |-> "panic", err |-> "", val |-> <<>>, size |-> 0]
NoResult == [kind |-> "none", err |-> "", val |-> <<>>, size |-> 0]

\* byteorder's LittleEndian::read_u32: u32::from_le_bytes of the first four
\* bytes of the slice, the last of them the most significant
RECURSIVE LittleEndianRead(_, _)
LittleEndianRead(s, n) ==
    IF n = 0 THEN U32Of(0)
    ELSE U32Or(U32Shl(LittleEndianRead(Tail(s), n - 1), 8), U32Of(s[1]))

-----------------------------------------------------------------------------
(* Text.  A String is the sequence of its Unicode scalar values.           *)

IsCont(b) == b \in 128..191

\* String::from_utf8: <<TRUE, scalar values>> for well-formed UTF-8, <<FALSE, <<>>>> otherwise
RECURSIVE Utf8Decode(_)
Utf8Decode(s) ==
    IF s = <<>> THEN <<TRUE, <<>>>>
    ELSE
        LET b == s[1]
            width == IF b < 128 THEN 1
                     ELSE IF b \in 194..223 THEN 2
                     ELSE IF b \in 224..239 THEN 3
                     ELSE IF b \in 240..244 THEN 4
                     ELSE 0
            second == IF b = 224 THEN 160..191
                      ELSE IF b = 237 THEN 128..159
                      ELSE IF b = 240 THEN 144..191
                      ELSE IF b = 244 THEN 128..143
                      ELSE 128..191
            wellFormed == /\ width > 0
                          /\ Len(s) >= width
                          /\ width >= 2 => s[2] \in second
                          /\ \A i \in 3..width : IsCont(s[i])
            scalar == IF width = 1 THEN b
                      ELSE IF width = 2 THEN (b - 192) * 64 + (s[2] - 128)
                      ELSE IF width = 3 THEN (b - 224) * 4096 + (s[2] - 128) * 64 + (s[3] - 128)
                      ELSE (b - 240) * 262144 + (s[2] - 128) * 4096
                           + (s[3] - 128) * 64 + (s[4] - 128)
        IN IF ~wellFormed THEN <<FALSE, <<>>>>
           ELSE LET rest == Utf8Decode(Slice(s, width, Len(s)))
                IN IF rest[1] THEN <<TRUE, <<scalar>> \o rest[2]>> ELSE <<FALSE, <<>>>>

\* String::from_utf16: surrogates must come in pairs, high then low
RECURSIVE Utf16Decode(_)
Utf16Decode(u) ==
    IF u = <<>> THEN <<TRUE, <<>>>>
    ELSE IF u[1] \in 55296..56319
    THEN IF Len(u) >= 2 /\ u[2] \in 56320..57343
         THEN LET rest == Utf16Decode(Slice(u, 2, Len(u)))
              IN IF rest[1]
                 THEN <<TRUE, <<65536 + (u[1] - 55296) * 1024 + (u[2] - 56320)>> \o rest[2]>>
                 ELSE <<FALSE, <<>>>>
         ELSE <<FALSE, <<>>>>
    ELSE IF u[1] \in 56320..57343 THEN <<FALSE, <<>>>>
    ELSE LET rest == Utf16Decode(Tail(u))
         IN IF rest[1] THEN <<TRUE, <<u[1]>> \o rest[2]>> ELSE <<FALSE, <<>>>>

\* slice.chunks_exact(2).map(|x| u16::from_le_bytes([x[0], x[1]])): a last odd byte is dropped
U16Units(s) == [i \in 1..(Len(s) \div 2) |-> s[2 * i - 1] + 256 * s[2 * i]]

\* ISO_8859_1.decode: every byte is the scalar value of the same number; it never fails
Iso88591Decode(s) == [i \in 1..Len(s) |-> s[i]]

-----------------------------------------------------------------------------
(* rpfm_common::decoder: impl Decoder for [u8].                            *)
(* A slice expression self[a..b] with b > len or a > b panics.             *)

decode_bytes_checked(self, offset, size) ==
    IF size = 0 THEN Ok(<<>>, 0)
    ELSE IF Len(self) >= offset + size
    THEN IF size - 1 < Len(self)
         THEN Ok(Slice(self, offset, offset + size), size)
         ELSE Err("DecodingNotMoreBytesToDecode")
    ELSE Err("DecodingNotMoreBytesToDecode")

decode_integer_u32_wrong_bound(self, offset) ==
    IF Len(self) >= offset + 3
    THEN IF Len(self) - offset < 4 THEN Panic
         ELSE Ok(LittleEndianRead(Slice(self, offset, Len(self)), 4), 4)
    ELSE Err("DecodingNotEnoughBytesToDecodeForType")

decode_integer_u32(self, offset) ==
    IF Len(self) >= offset + 4
    THEN Ok(LittleEndianRead(Slice(self, offset, Len(self)), 4), 4)
    ELSE Err("DecodingNotEnoughBytesToDecodeForType")

decode_string_u8(self, offset, size) ==
    IF Len(self) < offset + size
    THEN Err("DecodingNotEnoughBytesToDecodeForType")
    ELSE LET s == Utf8Decode(Slice(self, offset, offset + size))
         IN IF s[1] THEN Ok(s[2], size) ELSE Err("FromUtf8Error")

decode_string_u8_iso_8859_1(self, offset, size) ==
    IF Len(self) < offset + size
    THEN Err("DecodingNotEnoughBytesToDecodeForType")
    ELSE Ok(Iso88591Decode(Slice(self, offset, offset + size)), size)

decode_string_u8_0padded(self, offset, size) ==
    IF Len(self) < offset + size
    THEN Err("DecodingNotEnoughBytesToDecodeForType")
    ELSE LET position == PositionOfZero(Slice(self, offset, offset + size), 1)
             size_no_zeros == IF position = -1 THEN size ELSE position
             s == Utf8Decode(Slice(self, offset, offset + size_no_zeros))
         IN IF s[1] THEN Ok(s[2], size) ELSE Err("FromUtf8Error")

decode_string_u16(self, offset, size) ==
    IF Len(self) < offset + size /\ size % 2 = 0
    THEN Err("DecodingNotEnoughBytesToDecodeForType")
    ELSE IF offset + size > Len(self) THEN Panic
    ELSE LET s == Utf16Decode(U16Units(Slice(self, offset, offset + size)))
         IN IF s[1] THEN Ok(s[2], size) ELSE Err("FromUtf16Error")

decode_string_u16_0padded(self, offset, size) ==
    IF Len(self) < offset + size
    THEN Err("DecodingNotEnoughBytesToDecodeForType")
    ELSE LET position == PositionOfZero(StepBy2(Slice(self, offset, offset + size)), 1)
             size_no_zeros == IF position = -1 THEN size ELSE position * 2
             s == Utf16Decode(U16Units(Slice(self, offset, offset + size_no_zeros)))
         IN IF s[1] THEN Ok(s[2], size) ELSE Err("FromUtf16Error")

\* the uppercase hexadecimal digit of a value below 16, as a character
UpperHexDigit(d) == IF d < 10 THEN 48 + d ELSE 55 + d

\* the four hexadecimal digits of a 16-bit half
HexOfHalf(h) ==
    <<UpperHexDigit(h \div 4096), UpperHexDigit((h \div 256) % 16),
      UpperHexDigit((h \div 16) % 16), UpperHexDigit(h % 16)>>

\* the digits of a number without its leading zeros, down to a width
RECURSIVE PadTo(_, _)
PadTo(digits, width) ==
    IF Len(digits) > width /\ digits[1] = 48 THEN PadTo(Tail(digits), width)
    ELSE digits

\* format!("{:06X?}", value): the uppercase hexadecimal digits of the u32,
\* padded with zeros to a width of 6
FormatUpperHex06(value) == PadTo(HexOfHalf(value[1]) \o HexOfHalf(value[2]), 6)

decode_string_colour_rgb(self, offset) ==
    IF Len(self) < offset + 4
    THEN Err("DecodingNotEnoughBytesToDecodeForType")
    ELSE Ok(FormatUpperHex06(LittleEndianRead(Slice(self, offset, Len(self)), 4)), 4)

\* decode_integer_u8 and decode_bool
decode_integer_u8(self, offset) ==
    IF offset < Len(self) THEN Ok(<<self[offset + 1]>>, 1)
    ELSE Err("DecodingNoBytesLeftError")

decode_bool(self, offset) ==
    LET value == decode_integer_u8(self, offset)
    IN IF value.kind # "ok" THEN value
       ELSE IF value.val[1] = 0 THEN Ok(<<0>>, 1)
       ELSE IF value.val[1] = 1 THEN Ok(<<1>>, 1)
       ELSE Err("DecodingBoolError")

\* decode_integer_u16: LittleEndian::read_u16 of the two bytes at offset
decode_integer_u16(self, offset) ==
    IF Len(self) >= offset + 2
    THEN Ok(<<self[offset + 1] + 256 * self[offset + 2]>>, 2)
    ELSE Err("DecodingNotEnoughBytesToDecodeForType")

\* byteorder's LittleEndian::read_i16, read_i32 and read_i64: two's
\* complement.  An i64 is <<upper, high, low>>: its upper four bytes as an
\* i32 and its lower four bytes as the two halves of a u32.
LittleEndianReadI16(s) ==
    LET unsigned == s[1] + 256 * s[2]
    IN IF unsigned >= Half \div 2 THEN unsigned - Half ELSE unsigned
LittleEndianReadI32(s) ==
    LittleEndianReadI16(<<s[3], s[4]>>) * Half + (s[1] + 256 * s[2])
LittleEndianReadI64(s) ==
    <<LittleEndianReadI32(SubSeq(s, 5, 8))>> \o LittleEndianRead(s, 4)

decode_integer_i16(self, offset) ==
    IF Len(self) >= offset + 2
    THEN Ok(<<LittleEndianReadI16(SubSeq(self, offset + 1, Len(self)))>>, 2)
    ELSE Err("DecodingNotEnoughBytesToDecodeForType")

decode_integer_i32(self, offset) ==
    IF Len(self) >= offset + 4
    THEN Ok(<<LittleEndianReadI32(SubSeq(self, offset + 1, Len(self)))>>, 4)
    ELSE Err("DecodingNotEnoughBytesToDecodeForType")

decode_integer_i64(self, offset) ==
    IF Len(self) >= offset + 8
    THEN Ok(LittleEndianReadI64(SubSeq(self, offset + 1, Len(self))), 8)
    ELSE Err("DecodingNotEnoughBytesToDecodeForType")

\* The cursor decoders return <<result, cursor>>, the cursor being *index
\* when the call returns.
\* decode_packedfile_optional_integer_*: the result of decode_bool is used
\* for the cursor only, and the integer is decoded at the same offset
decode_packedfile_optional_integer_i16(self, offset, idx) ==
    LET first == decode_bool(self, offset)
        after_bool == IF first.kind = "ok" THEN idx + 1 ELSE idx
        r == decode_integer_i16(self, offset)
    IN <<r, IF r.kind = "ok" THEN after_bool + 2 ELSE after_bool>>

decode_packedfile_optional_integer_i32(self, offset, idx) ==
    LET first == decode_bool(self, offset)
        after_bool == IF first.kind = "ok" THEN idx + 1 ELSE idx
        r == decode_integer_i32(self, offset)
    IN <<r, IF r.kind = "ok" THEN after_bool + 4 ELSE after_bool>>

decode_packedfile_optional_integer_i64(self, offset, idx) ==
    LET first == decode_bool(self, offset)
        after_bool == IF first.kind = "ok" THEN idx + 1 ELSE idx
        r == decode_integer_i64(self, offset)
    IN <<r, IF r.kind = "ok" THEN after_bool + 8 ELSE after_bool>>

decode_packedfile_bool(self, offset, idx) ==
    LET r == decode_bool(self, offset)
    IN <<r, IF r.kind = "ok" THEN idx + 1 ELSE idx>>

decode_packedfile_integer_u16(self, offset, idx) ==
    LET r == decode_integer_u16(self, offset)
    IN <<r, IF r.kind = "ok" THEN idx + 2 ELSE idx>>

decode_packedfile_string_u8(self, offset, idx) ==
    LET size == decode_packedfile_integer_u16(self, offset, idx)
    IN IF size[1].kind = "ok"
       THEN LET r == decode_string_u8(self, offset + 2, size[1].val[1])
            IN <<r, IF r.kind = "err" THEN size[2] - 2 ELSE size[2] + size[1].val[1]>>
       ELSE <<Err("DecodingStringSizeError"), size[2]>>

\* a UTF-16 reader that doubles the length without wrapping it to 16 bits
decode_packedfile_string_u16_unwrapped(self, offset, idx) ==
    LET size == decode_packedfile_integer_u16(self, offset, idx)
    IN IF size[1].kind = "ok"
       THEN LET bytes == size[1].val[1] * 2
                r == decode_string_u16(self, offset + 2, bytes)
            IN IF r.kind = "panic" THEN <<r, size[2]>>
               ELSE <<r, IF r.kind = "err" THEN size[2] - 2 ELSE size[2] + bytes>>
       ELSE <<Err("DecodingStringSizeError"), size[2]>>

decode_packedfile_string_u16(self, offset, idx) ==
    LET size == decode_packedfile_integer_u16(self, offset, idx)
    IN IF size[1].kind = "ok"
       THEN LET bytes == (size[1].val[1] * 2) % (256 * 256)
                r == decode_string_u16(self, offset + 2, bytes)
            IN IF r.kind = "panic" THEN <<r, size[2]>>
               ELSE <<r, IF r.kind = "err" THEN size[2] - 2 ELSE size[2] + bytes>>
       ELSE <<Err("DecodingStringSizeError"), size[2]>>

\* an optional string reader that keeps the byte of the boolean consumed
\* when the string after it fails
decode_packedfile_optional_string_u8_keeping_bool(self, offset, idx) ==
    LET is == decode_packedfile_bool(self, offset, idx)
    IN IF is[1].kind # "ok" THEN <<Err("DecodingOptionalStringBoolError"), is[2]>>
       ELSE IF is[1].val[1] = 0 THEN <<Ok(<<>>, 0), is[2]>>
       ELSE decode_packedfile_string_u8(self, offset + 1, is[2])

decode_packedfile_optional_string_u8(self, offset, idx) ==
    LET is == decode_packedfile_bool(self, offset, idx)
    IN IF is[1].kind # "ok" THEN <<Err("DecodingOptionalStringBoolError"), is[2]>>
       ELSE IF is[1].val[1] = 0 THEN <<Ok(<<>>, 0), is[2]>>
       ELSE LET r == decode_packedfile_string_u8(self, offset + 1, is[2])
            IN <<r[1], IF r[1].kind = "err" THEN r[2] - 1 ELSE r[2]>>

decode_packedfile_optional_string_u16(self, offset, idx) ==
    LET is == decode_packedfile_bool(self, offset, idx)
    IN IF is[1].kind # "ok" THEN <<Err("DecodingOptionalStringBoolError"), is[2]>>
       ELSE IF is[1].val[1] = 0 THEN <<Ok(<<>>, 0), is[2]>>
       ELSE LET r == decode_packedfile_string_u16(self, offset + 1, is[2])
            IN <<r[1], IF r[1].kind = "err" THEN r[2] - 1 ELSE r[2]>>

\* The loop of decode_packedfile_integer_cauleb128 from the cursor position
\* idx with the accumulator size: <<result, cursor>>.  self.get(idx) is None
\* at or past the end.
RECURSIVE cauleb128_loop(_, _, _)
cauleb128_loop(self, idx, size) ==
    IF idx >= Len(self) THEN <<Err("DecodingNotMoreBytesToDecode"), idx>>
    ELSE LET byte == self[idx + 1]
             acc == U32Or(U32Shl(size, 7), U32Of(BitAnd(byte, 127)))
         IN IF BitAnd(byte, 128) # 0
            THEN cauleb128_loop(self, idx + 1, acc)
            ELSE <<Ok(acc, 0), idx + 1>>

\* standard LEB128, least significant group first
RECURSIVE cauleb128_lsb_first_loop(_, _, _, _)
cauleb128_lsb_first_loop(self, idx, size, shift) ==
    IF idx >= Len(self) THEN <<Err("DecodingNotMoreBytesToDecode"), idx>>
    ELSE LET byte == self[idx + 1]
             group == IF shift >= U32_BITS THEN U32Of(0)
                      ELSE IF shift >= 16
                      THEN U32Shl(<<BitAnd(byte, 127), 0>>, shift - 16)
                      ELSE U32Shl(U32Of(BitAnd(byte, 127)), shift)
             acc == U32Or(size, group)
         IN IF BitAnd(byte, 128) # 0
            THEN cauleb128_lsb_first_loop(self, idx + 1, acc, shift + 7)
            ELSE <<Ok(acc, 0), idx + 1>>

decode_packedfile_integer_cauleb128_lsb_first(self, idx) ==
    cauleb128_lsb_first_loop(self, idx, U32Of(0), 0)

decode_packedfile_integer_cauleb128(self, idx) ==
    cauleb128_loop(self, idx, U32Of(0))

-----------------------------------------------------------------------------
(* Tables.  A cell is a DecodedData: its variant and its value, the value  *)
(* a sequence of naturals (one number for I32 and Boolean, the count of    *)
(* 0.00001 units for F32, the characters for StringU8).  A row is a        *)
(* sequence of cells.                                                      *)

I32(n) == [t |-> "I32", v |-> <<n>>]
F32(units) == [t |-> "F32", v |-> <<units>>]
StringU8(chars) == [t |-> "StringU8", v |-> chars]
Boolean(b) == [t |-> "Boolean", v |-> <<IF b THEN 1 ELSE 0>>]

\* the decimal digits of n, as characters
RECURSIVE ToDecimal(_)
ToDecimal(n) ==
    IF n < 10 THEN <<48 + n>> ELSE ToDecimal(n \div 10) \o <<48 + (n % 10)>>

\* format!("{:.4}", value): rounded to four decimal places, all four printed
FormatFloat4(units) ==
    LET rounded == (units + 5) \div 10
        frac == rounded % 10000
    IN ToDecimal(rounded \div 10000) \o <<46>>
       \o <<48 + (frac \div 1000), 48 + ((frac \div 100) % 10),
            48 + ((frac \div 10) % 10), 48 + (frac % 10)>>

\* the name of a variant, as characters
VariantName(t) ==
    CASE t = "I32" -> <<73, 51, 50>>
      [] t = "F32" -> <<70, 51, 50>>
      [] t = "StringU8" -> <<83, 116, 114, 105, 110, 103, 85, 56>>
      [] t = "Boolean" -> <<66, 111, 111, 108, 101, 97, 110>>

TrueText == <<116, 114, 117, 101>>
FalseText == <<102, 97, 108, 115, 101>>

\* DecodedData::data_to_string
data_to_string(cell) ==
    CASE cell.t = "I32" -> ToDecimal(cell.v[1])
      [] cell.t = "F32" -> FormatFloat4(cell.v[1])
      [] cell.t = "StringU8" -> cell.v
      [] cell.t = "Boolean" -> IF cell.v[1] = 1 THEN TrueText ELSE FalseText

\* serde_json::to_string of one cell: {"Variant":value}
JsonCell(cell) ==
    <<123, 34>> \o VariantName(cell.t) \o <<34, 58>>
    \o (IF cell.t = "StringU8" THEN <<34>> \o cell.v \o <<34>> ELSE data_to_string(cell))
    \o <<125>>

RECURSIVE JsonCells(_)
JsonCells(row) ==
    IF row = <<>> THEN <<>>
    ELSE JsonCell(row[1]) \o (IF Len(row) > 1 THEN <<44>> ELSE <<>>) \o JsonCells(Tail(row))

\* serde_json::to_string of a row: [cell,cell,...]
JsonRow(row) == <<91>> \o JsonCells(row) \o <<93>>

\* every F32 cell replaced by the StringU8 of its four-decimal text
FloatsToStrings(row) ==
    [i \in 1..Len(row) |->
        IF row[i].t = "F32" THEN StringU8(FormatFloat4(row[i].v[1])) ELSE row[i]]

\* str::partial_cmp: -1, 0 or 1 for less, equal, greater, character by character
RECURSIVE StrCmp(_, _)
StrCmp(a, b) ==
    IF a = <<>> THEN (IF b = <<>> THEN 0 ELSE -1)
    ELSE IF b = <<>> THEN 1
    ELSE IF a[1] < b[1] THEN -1
    ELSE IF a[1] > b[1] THEN 1
    ELSE StrCmp(Tail(a), Tail(b))

\* A definition: the variant of every column and the position of the first key column.
DefinitionIntStr == [fields |-> <<"I32", "StringU8">>, first_key |-> 0]
DefinitionFloatStr == [fields |-> <<"F32", "StringU8">>, first_key |-> 0]
DefinitionLoc == [fields |-> <<"StringU8", "StringU8", "Boolean">>, first_key |-> 0]

\* Table::new_row: the default value of every column
DefaultCell(t) ==
    CASE t = "I32" -> I32(0)
      [] t = "F32" -> F32(0)
      [] t = "StringU8" -> StringU8(<<>>)
      [] t = "Boolean" -> Boolean(FALSE)

new_row(definition) == [i \in 1..Len(definition.fields) |-> DefaultCell(definition.fields[i])]

\* Table::set_data: the rows are stored when each has the columns of the definition
RowFits(definition, row) ==
    /\ Len(row) = Len(definition.fields)
    /\ \A i \in 1..Len(row) : row[i].t = definition.fields[i]

set_data(self, entries) ==
    IF \A i \in 1..Len(entries) : RowFits(self.definition, entries[i])
    THEN [self EXCEPT !.rows = entries]
    ELSE self

\* the rows of every reference file that is a decoded table, in order
RECURSIVE FlattenReference(_)
FlattenReference(files) ==
    IF files = <<>> THEN <<>>
    ELSE (IF files[1].decoded THEN files[1].rows ELSE <<>>) \o FlattenReference(Tail(files))

Range(s) == {s[i] : i \in 1..Len(s)}

\* Vec::retain
RECURSIVE Retain(_, _)
Retain(entries, keep) ==
    IF entries = <<>> THEN <<>>
    ELSE (IF keep[1] THEN <<entries[1]>> ELSE <<>>)
         \o Retain(Tail(entries), Tail(keep))

\* Vec::dedup: of every run of consecutive equal rows the first is kept
RECURSIVE Dedup(_)
Dedup(entries) ==
    IF Len(entries) <= 1 THEN entries
    ELSE LET rest == Dedup(Tail(entries))
         IN IF entries[1] = entries[2] THEN rest ELSE <<entries[1]>> \o rest

-----------------------------------------------------------------------------
(* rpfm_extensions::optimizer: Optimizable for DB and for Loc.             *)
(* A table is [kind, definition, rows, readable]; readable is whether      *)
(* self.data(&None) yields the rows (it does not for sql-backed data).     *)
(* What dependencies.db_data / loc_data return is [ok, files], the files a *)
(* sequence of [decoded, rows]: whether the file is a decoded table.       *)

\* float_eq!(x, y, abs <= 0.0001), in units of 0.00001
FloatEq(x, y) == (IF x >= y THEN x - y ELSE y - x) <= 10

\* The comparison of par_sort_by: -1, 0, 1.  With tolerant (DB), two F32
\* first keys within the tolerance are equal; otherwise the texts of the
\* first keys are compared.
CompareRows(a, b, first_key, tolerant) ==
    IF /\ tolerant
       /\ a[first_key + 1].t = "F32"
       /\ b[first_key + 1].t = "F32"
       /\ FloatEq(a[first_key + 1].v[1], b[first_key + 1].v[1])
    THEN 0
    ELSE StrCmp(data_to_string(a[first_key + 1]), data_to_string(b[first_key + 1]))

\* an insertion that also moves the row before the rows it is equal to
RECURSIVE InsertRowBeforeEquals(_, _, _, _)
InsertRowBeforeEquals(sorted, row, first_key, tolerant) ==
    IF sorted = <<>> THEN <<row>>
    ELSE IF CompareRows(row, sorted[Len(sorted)], first_key, tolerant) <= 0
    THEN InsertRowBeforeEquals(SubSeq(sorted, 1, Len(sorted) - 1), row, first_key, tolerant)
         \o <<sorted[Len(sorted)]>>
    ELSE sorted \o <<row>>

\* One insertion of the stable sort: the row moves left past the rows it is
\* less than, and stays behind the rows it is equal to.
RECURSIVE InsertRow(_, _, _, _)
InsertRow(sorted, row, first_key, tolerant) ==
    IF sorted = <<>> THEN <<row>>
    ELSE IF CompareRows(row, sorted[Len(sorted)], first_key, tolerant) < 0
    THEN InsertRow(SubSeq(sorted, 1, Len(sorted) - 1), row, first_key, tolerant)
         \o <<sorted[Len(sorted)]>>
    ELSE sorted \o <<row>>

\* entries.par_sort_by(..): a stable sort, by insertion for slices this short
RECURSIVE SortRows(_, _, _)
SortRows(entries, first_key, tolerant) ==
    IF entries = <<>> THEN <<>>
    ELSE InsertRow(SortRows(SubSeq(entries, 1, Len(entries) - 1), first_key, tolerant),
                   entries[Len(entries)], first_key, tolerant)

\* the HashSet of the canonical JSON text of every reference row
db_vanilla_table(files) ==
    {JsonRow(FloatsToStrings(x)) : x \in Range(FlattenReference(files))}

\* a retain closure that forgets the rows identical to the new row
db_keep_itm_only(entry, vanilla_table, canonical_new_row) ==
    JsonRow(FloatsToStrings(entry)) \notin vanilla_table

\* the closure of entries.retain in DB::optimize
db_keep(entry, vanilla_table, canonical_new_row) ==
    /\ JsonRow(FloatsToStrings(entry)) \notin vanilla_table
    /\ entry # canonical_new_row

\* a DB::optimize that, without reference data, reports whether the table
\* has rows
DBOptimize_reporting_rows_on_error(self, db_data) ==
    IF ~self.readable THEN [table |-> self, ret |-> FALSE]
    ELSE IF ~db_data.ok THEN [table |-> self, ret |-> self.rows = <<>>]
    ELSE
        LET first_key == self.definition.first_key
            vanilla_table == db_vanilla_table(db_data.files)
            canonical_new_row == FloatsToStrings(new_row(self.definition))
            retained == Retain(self.rows,
                               [i \in 1..Len(self.rows) |->
                                   db_keep(self.rows[i], vanilla_table, canonical_new_row)])
            entries == Dedup(SortRows(retained, first_key, TRUE))
            stored == set_data(self, entries)
        IN [table |-> stored, ret |-> stored.rows = <<>>]

\* DB::optimize: the table afterwards and the value returned
DBOptimize(self, db_data) ==
    IF ~self.readable THEN [table |-> self, ret |-> FALSE]
    ELSE IF ~db_data.ok THEN [table |-> self, ret |-> FALSE]
    ELSE
        LET first_key == self.definition.first_key
            vanilla_table == db_vanilla_table(db_data.files)
            canonical_new_row == FloatsToStrings(new_row(self.definition))
            retained == Retain(self.rows,
                               [i \in 1..Len(self.rows) |->
                                   db_keep(self.rows[i], vanilla_table, canonical_new_row)])
            entries == Dedup(SortRows(retained, first_key, TRUE))
            stored == set_data(self, entries)
        IN [table |-> stored, ret |-> stored.rows = <<>>]

\* a map in which the first of two rows with one key stays
RECURSIVE loc_vanilla_table_first_stays(_)
loc_vanilla_table_first_stays(rows) ==
    IF rows = <<>> THEN <<>>
    ELSE LET first == rows[1]
             key == data_to_string(first[1])
             after == loc_vanilla_table_first_stays(Tail(rows))
         IN [k \in DOMAIN after \cup {key} |->
                IF k = key THEN data_to_string(first[2]) ELSE after[k]]

\* collect::<HashMap<String, String>>(): of two rows with one key the later stays
RECURSIVE loc_vanilla_table(_)
loc_vanilla_table(rows) ==
    IF rows = <<>> THEN <<>>
    ELSE LET last == rows[Len(rows)]
             key == data_to_string(last[1])
             before == loc_vanilla_table(SubSeq(rows, 1, Len(rows) - 1))
         IN [k \in DOMAIN before \cup {key} |->
                IF k = key THEN data_to_string(last[2]) ELSE before[k]]

\* the closure of entries.retain in Loc::optimize
loc_keep(entry, vanilla_table, the_new_row) ==
    IF entry = the_new_row THEN FALSE
    ELSE IF data_to_string(entry[1]) \in DOMAIN vanilla_table
    THEN data_to_string(entry[2]) # vanilla_table[data_to_string(entry[1])]
    ELSE TRUE

\* Loc::optimize: the table afterwards and the value returned
LocOptimize(self, loc_data) ==
    IF ~self.readable THEN [table |-> self, ret |-> FALSE]
    ELSE IF ~loc_data.ok THEN [table |-> self, ret |-> FALSE]
    ELSE
        LET vanilla_table == loc_vanilla_table(FlattenReference(loc_data.files))
            the_new_row == new_row(self.definition)
            retained == Retain(self.rows,
                               [i \in 1..Len(self.rows) |->
                                   loc_keep(self.rows[i], vanilla_table, the_new_row)])
            entries == Dedup(SortRows(retained, 0, FALSE))
            stored == set_data(self, entries)
        IN [table |-> stored, ret |-> stored.rows = <<>>]

-----------------------------------------------------------------------------
(* The parts of the state that a state machine below does not use keep     *)
(* these values.                                                           *)

NoCall == [op |-> "none", offset |-> 0, size |-> 0]

DecoderIdle ==
    /\ buffer = <<>>
    /\ index = 0
    /\ call = NoCall
    /\ result = NoResult

TableIdle ==
    /\ table = <<>>
    /\ reference = <<>>
    /\ tableRet = FALSE
    /\ tableHist = <<>>

OptIdle ==
    /\ optPack = [files |-> <<>>]
    /\ dependencies = <<>>
    /\ optOut = <<>>

CodecIdle ==
    /\ pack = <<>>
    /\ stream = <<>>
    /\ writeOut = <<>>
    /\ readPack = <<>>
    /\ codecPc = "idle"

-----------------------------------------------------------------------------
(* The table optimizer as a state machine: a table, its reference dataset, *)
(* and the optimizer run on the table up to MaxRuns times.                 *)

RowUniverse(definition) ==
    CASE definition = DefinitionIntStr ->
            {<<I32(0), StringU8(<<>>)>>, <<I32(1), StringU8(<<97>>)>>,
             <<I32(2), StringU8(<<98>>)>>, <<I32(1), StringU8(<<98>>)>>}
      [] definition = DefinitionFloatStr ->
            {<<F32(0), StringU8(<<>>)>>, <<F32(4), StringU8(<<>>)>>,
             <<F32(150000), StringU8(<<97>>)>>, <<F32(0), StringU8(<<97>>)>>}
      [] definition = DefinitionLoc ->
            {<<StringU8(<<>>), StringU8(<<>>), Boolean(FALSE)>>,
             <<StringU8(<<107>>), StringU8(<<118>>), Boolean(FALSE)>>,
             <<StringU8(<<107>>), StringU8(<<119>>), Boolean(FALSE)>>,
             <<StringU8(<<107>>), StringU8(<<118>>), Boolean(TRUE)>>,
             <<StringU8(<<106>>), StringU8(<<118>>), Boolean(FALSE)>>}

KindOf(definition) == IF definition = DefinitionLoc THEN "Loc" ELSE "DB"

\* the tables of a definition: every readable one, and the unreadable ones of at most one row
Tables(definition) ==
    {[kind |-> KindOf(definition), definition |-> definition, rows |-> rows, readable |-> TRUE] :
        rows \in SeqsUpTo(RowUniverse(definition), MaxRows)}
    \cup
    {[kind |-> KindOf(definition), definition |-> definition, rows |-> rows, readable |-> FALSE] :
        rows \in SeqsUpTo(RowUniverse(definition), 1)}

\* the reference rows as two files, a vanilla one and a parent one; the
\* second may be a file that is not a decoded table
ReferenceFiles(rows, second_decoded) ==
    LET half == (Len(rows) + 1) \div 2
    IN <<[decoded |-> TRUE, rows |-> SubSeq(rows, 1, half)],
         [decoded |-> second_decoded, rows |-> SubSeq(rows, half + 1, Len(rows))]>>

References(definition) ==
    {[ok |-> FALSE, files |-> <<>>]}
    \cup
    {[ok |-> TRUE, files |-> ReferenceFiles(rows, second_decoded)] :
        rows \in SeqsUpTo(RowUniverse(definition), MaxRefRows), second_decoded \in BOOLEAN}

Definitions == {DefinitionIntStr, DefinitionFloatStr, DefinitionLoc}

TableInit ==
    /\ \E definition \in Definitions :
        /\ table \in Tables(definition)
        /\ reference \in References(definition)
    /\ tableRet = FALSE
    /\ tableHist = [given |-> table.rows, runs |-> <<>>]
    /\ DecoderIdle /\ OptIdle /\ CodecIdle

Optimized(r) ==
    /\ Len(tableHist.runs) < MaxRuns
    /\ table' = r.table
    /\ tableRet' = r.ret
    /\ tableHist' = [tableHist EXCEPT !.runs = Append(@, [rows |-> r.table.rows, ret |-> r.ret])]
    /\ UNCHANGED <<reference, decoderVars, optVars, codecVars>>

OptimizeDB ==
    /\ table.kind = "DB"
    /\ Optimized(DBOptimize(table, reference))

OptimizeLoc ==
    /\ table.kind = "Loc"
    /\ Optimized(LocOptimize(table, reference))

TableNext ==
    \/ OptimizeDB
    \/ OptimizeLoc

SpecTable == TableInit /\ [][TableNext]_vars

-----------------------------------------------------------------------------
(* The primitive decoder as a state machine: a byte source, the caller's   *)
(* cursor and one action per decoder function.                             *)

\* 0 and 1 (booleans, padding), 'A', a continuation byte, a UTF-8 lead byte
\* and the high byte of a UTF-16 surrogate
ByteAlphabet == {0, 1, 65, 129, 195, 216}
\* clear and set high bits, with low groups of zeros, ones and mixed bits
IntAlphabet == {0, 127, 129, 255}

Offsets == 0..(MaxBufLen + 1)
Sizes == 0..(MaxBufLen + 1)

DecoderInit ==
    /\ buffer \in SeqsUpTo(ByteAlphabet, MaxBufLen)
    /\ index = 0
    /\ call = NoCall
    /\ result = NoResult
    /\ TableIdle /\ OptIdle /\ CodecIdle

\* a call of a decoder that takes no cursor; a behaviour makes one such call
\* on its byte source, the decoders being functions of the source alone
Plain(op, offset, size, res) ==
    /\ call = NoCall
    /\ call' = [op |-> op, offset |-> offset, size |-> size]
    /\ result' = res
    /\ UNCHANGED <<buffer, index, tableVars, optVars, codecVars>>

DecodeBytesChecked ==
    \E offset \in Offsets, size \in Sizes :
        Plain("decode_bytes_checked", offset, size, decode_bytes_checked(buffer, offset, size))

DecodeIntegerU32 ==
    \E offset \in 0..(MaxIntLen + 1) :
        Plain("decode_integer_u32", offset, 4, decode_integer_u32(buffer, offset))

DecodeStringU8 ==
    \E offset \in Offsets, size \in Sizes :
        Plain("decode_string_u8", offset, size, decode_string_u8(buffer, offset, size))

DecodeStringU8Iso88591 ==
    \E offset \in Offsets, size \in Sizes :
        Plain("decode_string_u8_iso_8859_1", offset, size,
              decode_string_u8_iso_8859_1(buffer, offset, size))

DecodeStringU80Padded ==
    \E offset \in Offsets, size \in Sizes :
        Plain("decode_string_u8_0padded", offset, size,
              decode_string_u8_0padded(buffer, offset, size))

DecodeStringU16 ==
    \E offset \in Offsets, size \in Sizes :
        Plain("decode_string_u16", offset, size, decode_string_u16(buffer, offset, size))

DecodeStringU160Padded ==
    \E offset \in Offsets, size \in Sizes :
        Plain("decode_string_u16_0padded", offset, size,
              decode_string_u16_0padded(buffer, offset, size))

DecoderNext ==
    \/ DecodeBytesChecked
    \/ DecodeStringU8
    \/ DecodeStringU8Iso88591
    \/ DecodeStringU80Padded
    \/ DecodeStringU16
    \/ DecodeStringU160Padded

SpecDecoder == DecoderInit /\ [][DecoderNext]_vars

\* The integer decoders.  The variant-length integer decoder is called again
\* and again on the same source: the cursor is the caller's, and is where the
\* last call left it.
IntegersInit ==
    /\ buffer \in SeqsUpTo(IntAlphabet, MaxIntLen)
    /\ index \in 0..(Len(buffer) + 1)
    /\ call = NoCall
    /\ result = NoResult
    /\ TableIdle /\ OptIdle /\ CodecIdle

DecodePackedfileIntegerCauleb128 ==
    LET r == decode_packedfile_integer_cauleb128(buffer, index)
    IN /\ call' = [op |-> "decode_packedfile_integer_cauleb128", offset |-> index, size |-> 0]
       /\ result' = r[1]
       /\ index' = r[2]
       /\ UNCHANGED <<buffer, tableVars, optVars, codecVars>>

DecodeStringColourRgb ==
    \E offset \in 0..(MaxIntLen + 1) :
        Plain("decode_string_colour_rgb", offset, 4, decode_string_colour_rgb(buffer, offset))

IntegersNext ==
    \/ DecodeIntegerU32
    \/ DecodePackedfileIntegerCauleb128
    \/ DecodeStringColourRgb

SpecIntegers == IntegersInit /\ [][IntegersNext]_vars

\* The length-prefixed string decoders.  The source is an optional leading
\* byte, a two-byte length and a payload; the caller passes an offset and its
\* cursor.
LeadBytes == {<<>>, <<0>>, <<1>>, <<2>>}
PrefixAlphabet == {0, 1, 2, 3, 128}
PayloadAlphabet == {65, 216}
StringSources ==
    {lead \o prefix \o payload :
        lead \in LeadBytes,
        prefix \in SeqsUpTo(PrefixAlphabet, 2),
        payload \in SeqsUpTo(PayloadAlphabet, MaxPayload)}

StringsInit ==
    /\ buffer \in StringSources
    /\ index \in {0, 5}
    /\ call = NoCall
    /\ result = NoResult
    /\ TableIdle /\ OptIdle /\ CodecIdle

\* a call of a decoder that takes the caller's cursor; r is <<result, cursor>>
WithCursor(op, offset, r) ==
    /\ call = NoCall
    /\ call' = [op |-> op, offset |-> offset, size |-> index]
    /\ result' = r[1]
    /\ index' = r[2]
    /\ UNCHANGED <<buffer, tableVars, optVars, codecVars>>

DecodePackedfileStringU8 ==
    \E offset \in 0..1 :
        WithCursor("decode_packedfile_string_u8", offset,
                   decode_packedfile_string_u8(buffer, offset, index))

DecodePackedfileStringU16 ==
    \E offset \in 0..1 :
        WithCursor("decode_packedfile_string_u16", offset,
                   decode_packedfile_string_u16(buffer, offset, index))

DecodePackedfileOptionalStringU8 ==
    \E offset \in 0..1 :
        WithCursor("decode_packedfile_optional_string_u8", offset,
                   decode_packedfile_optional_string_u8(buffer, offset, index))

DecodePackedfileOptionalStringU16 ==
    \E offset \in 0..1 :
        WithCursor("decode_packedfile_optional_string_u16", offset,
                   decode_packedfile_optional_string_u16(buffer, offset, index))

StringsNext ==
    \/ DecodePackedfileStringU8
    \/ DecodePackedfileStringU16
    \/ DecodePackedfileOptionalStringU8
    \/ DecodePackedfileOptionalStringU16

SpecStrings == StringsInit /\ [][StringsNext]_vars

\* The optional integer decoders.  The source is an optional leading byte and
\* the first bytes of an integer; the caller passes an offset and its cursor.
IntegerPatterns(n) ==
    {[i \in 1..n |-> 0], [i \in 1..n |-> i], [i \in 1..n |-> 255],
     [i \in 1..n |-> IF i % 2 = 1 THEN 1 ELSE 128]}
IntegerSources ==
    {lead \o body :
        lead \in LeadBytes,
        body \in UNION {IntegerPatterns(n) : n \in 0..MaxIntegerBytes}}

OptionalsInit ==
    /\ buffer \in IntegerSources
    /\ index \in {0, 5}
    /\ call = NoCall
    /\ result = NoResult
    /\ TableIdle /\ OptIdle /\ CodecIdle

DecodePackedfileOptionalIntegerI16 ==
    \E offset \in 0..1 :
        WithCursor("decode_packedfile_optional_integer_i16", offset,
                   decode_packedfile_optional_integer_i16(buffer, offset, index))

DecodePackedfileOptionalIntegerI32 ==
    \E offset \in 0..1 :
        WithCursor("decode_packedfile_optional_integer_i32", offset,
                   decode_packedfile_optional_integer_i32(buffer, offset, index))

DecodePackedfileOptionalIntegerI64 ==
    \E offset \in 0..1 :
        WithCursor("decode_packedfile_optional_integer_i64", offset,
                   decode_packedfile_optional_integer_i64(buffer, offset, index))

OptionalsNext ==
    \/ DecodePackedfileOptionalIntegerI16
    \/ DecodePackedfileOptionalIntegerI32
    \/ DecodePackedfileOptionalIntegerI64

SpecOptionals == OptionalsInit /\ [][OptionalsNext]_vars

-----------------------------------------------------------------------------
(* Properties of the primitive decoder.                                    *)

\* C2: decode_integer_u32(b, o) succeeds if and only if o + 4 <= len(b); on
\* success it returns b[o] + 256*b[o+1] + 65536*b[o+2] + 16777216*b[o+3], here
\* as the two halves b[o+2] + 256*b[o+3] and b[o] + 256*b[o+1]; otherwise it
\* returns the not-enough-bytes error value.
C2_DecodeU32LittleEndian ==
    call.op = "decode_integer_u32" =>
        LET o == call.offset
        IN /\ (result.kind = "ok") <=> (o + 4 <= Len(buffer))
           /\ result.kind = "ok" =>
                result.val = <<buffer[o + 3] + 256 * buffer[o + 4],
                               buffer[o + 1] + 256 * buffer[o + 2]>>
           /\ result.kind # "ok" => result = Err("DecodingNotEnoughBytesToDecodeForType")

\* a successful read at a non-zero offset of a value above 2^31, its four bytes not all equal
C2_Witness ==
    /\ call.op = "decode_integer_u32"
    /\ call.offset > 0
    /\ result.kind = "ok"
    /\ result.val[1] >= 32768
    /\ result.val[1] # result.val[2]

SizedOps ==
    {"decode_bytes_checked", "decode_string_u8", "decode_string_u8_iso_8859_1",
     "decode_string_u8_0padded", "decode_string_u16", "decode_string_u16_0padded"}

\* C9: for every buffer, offset and size (odd sizes included), none of
\* decode_bytes_checked, decode_string_u8, decode_string_u8_iso_8859_1,
\* decode_string_u8_0padded, decode_string_u16 and decode_string_u16_0padded
\* aborts on an out-of-range index when offset + size > len(buffer).
C9_SizedReadsNeverAbort ==
    (call.op \in SizedOps /\ call.offset + call.size > Len(buffer)) =>
        result.kind # "panic"

\* the number of bytes with the high bit set from the zero-based position i on
RECURSIVE HighRun(_, _)
HighRun(s, i) ==
    IF i < Len(s) /\ s[i + 1] >= 128 THEN 1 + HighRun(s, i + 1) ELSE 0

\* the n low bits of x, most significant first
RECURSIVE BitsOf(_, _)
BitsOf(x, n) == IF n = 0 THEN <<>> ELSE BitsOf(x \div 2, n - 1) \o <<x % 2>>

RECURSIVE BitsValue(_)
BitsValue(bits) ==
    IF bits = <<>> THEN 0
    ELSE 2 * BitsValue(SubSeq(bits, 1, Len(bits) - 1)) + bits[Len(bits)]

\* the 7-bit groups of the bytes s[i..=i+k], first byte first, as one bit string
RECURSIVE GroupBits(_, _, _)
GroupBits(s, i, k) ==
    BitsOf(s[i + 1] % 128, 7) \o (IF k = 0 THEN <<>> ELSE GroupBits(s, i + 1, k - 1))

\* the 32 low bits of a bit string, as the two halves of a u32
Low32(bits) ==
    LET padded == [j \in 1..32 |-> 0] \o bits
        low == SubSeq(padded, Len(padded) - 31, Len(padded))
    IN <<BitsValue(SubSeq(low, 1, 16)), BitsValue(SubSeq(low, 17, 32))>>

\* C10: where k >= 0 bytes with the high bit set are followed by a byte with
\* the high bit clear, decode_packedfile_integer_cauleb128 returns the low 32
\* bits of the 7-bit groups of those k+1 bytes, most significant group first,
\* and advances the cursor by exactly k+1 ([0x81, 0x00] gives 128, [0x00]
\* gives 0); where the buffer ends first it fails with the
\* no-more-bytes-to-decode error.
C10_Cauleb128 ==
    call.op = "decode_packedfile_integer_cauleb128" =>
        LET i == call.offset
            k == HighRun(buffer, i)
        IN /\ IF i + k < Len(buffer)
              THEN /\ result.kind = "ok"
                   /\ result.val = Low32(GroupBits(buffer, i, k))
                   /\ index = i + k + 1
              ELSE result = Err("DecodingNotMoreBytesToDecode")
           /\ (buffer = <<129, 0>> /\ i = 0) => result.val = U32Of(128)
           /\ (buffer = <<0>> /\ i = 0) => result.val = U32Of(0)

\* a five-byte integer whose first group does not fit in the 32 bits, read
\* from a cursor that an earlier byte precedes
C10_Witness ==
    /\ call.op = "decode_packedfile_integer_cauleb128"
    /\ result.kind = "ok"
    /\ call.offset = 0
    /\ index = 5
    /\ buffer[1] = 255
    /\ buffer[5] = 127

-----------------------------------------------------------------------------
(* rpfm_extensions::optimizer: OptimizableContainer for Pack.              *)
(* The Pack is [files], a map from path to RFile; an RFile is              *)
(* [file_type, decodable, table], decodable being whether rfile.decode     *)
(* yields the decoded table of that type.  The dependencies are            *)
(* [vanilla_loaded, files, db_data, loc_data]: what is_vanilla_data_loaded *)
(* answers, the paths for which file_exists holds, and what db_data (by    *)
(* table name) and loc_data return.                                        *)

NoTable == [kind |-> "None", definition |-> [fields |-> <<>>, first_key |-> 0],
            rows |-> <<>>, readable |-> FALSE]

\* DB::table_name
table_name(tbl) ==
    IF tbl.definition = DefinitionFloatStr THEN "speed_tables" ELSE "units_tables"

\* dependencies.file_exists(path, true, true, true)
file_exists(deps, path) == path \in deps.files

\* Container::remove(&ContainerPath::File(path))
ContainerRemove(files, path) == [p \in DOMAIN files \ {path} |-> files[p]]

\* a scan without the same-name rule: every table file is decoded and optimized
scan_file_without_skip_rule(path, rfile, deps, optimize_datacored_tables) ==
    IF rfile.file_type = "DB"
    THEN [decode |-> TRUE,
          mark |-> rfile.decodable
                   /\ DBOptimize(rfile.table, deps.db_data[table_name(rfile.table)]).ret]
    ELSE IF rfile.file_type = "Loc"
    THEN [decode |-> TRUE,
          mark |-> rfile.decodable /\ LocOptimize(rfile.table, deps.loc_data).ret]
    ELSE [decode |-> FALSE, mark |-> FALSE]

\* a scan that marks the files it could not decode
scan_file_marking_undecodable(path, rfile, deps, optimize_datacored_tables) ==
    LET examine == optimize_datacored_tables \/ ~file_exists(deps, path)
    IN IF rfile.file_type = "DB"
       THEN [decode |-> examine,
             mark |-> examine
                      /\ (rfile.decodable =>
                            DBOptimize(rfile.table, deps.db_data[table_name(rfile.table)]).ret)]
       ELSE IF rfile.file_type = "Loc"
       THEN [decode |-> examine,
             mark |-> examine
                      /\ (rfile.decodable => LocOptimize(rfile.table, deps.loc_data).ret)]
       ELSE [decode |-> FALSE, mark |-> FALSE]

\* The closure of filter_map for one file: whether rfile.decode is called and
\* whether the path is returned.  The decoded table is the value decode
\* returns; optimize changes that value and nothing of the RFile.
scan_file(path, rfile, deps, optimize_datacored_tables) ==
    LET examine == optimize_datacored_tables \/ ~file_exists(deps, path)
    IN IF rfile.file_type = "DB"
       THEN [decode |-> examine,
             mark |-> examine
                      /\ rfile.decodable
                      /\ DBOptimize(rfile.table, deps.db_data[table_name(rfile.table)]).ret]
       ELSE IF rfile.file_type = "Loc"
       THEN [decode |-> examine,
             mark |-> examine
                      /\ rfile.decodable
                      /\ LocOptimize(rfile.table, deps.loc_data).ret]
       ELSE [decode |-> FALSE, mark |-> FALSE]

\* a scan that ends at the first path it returns
RECURSIVE scan_files_ending_at_first_marked(_, _, _, _)
scan_files_ending_at_first_marked(order, files, deps, optimize_datacored_tables) ==
    IF order = <<>> THEN [marked |-> <<>>, decoded |-> <<>>]
    ELSE LET path == order[1]
             one == scan_file(path, files[path], deps, optimize_datacored_tables)
             rest == IF one.mark THEN [marked |-> <<>>, decoded |-> <<>>]
                     ELSE scan_files_ending_at_first_marked(Tail(order), files, deps,
                                                            optimize_datacored_tables)
         IN [marked |-> (IF one.mark THEN <<path>> ELSE <<>>) \o rest.marked,
             decoded |-> (IF one.decode THEN <<path>> ELSE <<>>) \o rest.decoded]

\* self.files_mut().iter_mut().filter_map(..).collect::<Vec<String>>() with
\* the files met in the given order: the paths returned and the paths decoded
RECURSIVE scan_files(_, _, _, _)
scan_files(order, files, deps, optimize_datacored_tables) ==
    IF order = <<>> THEN [marked |-> <<>>, decoded |-> <<>>]
    ELSE LET path == order[1]
             one == scan_file(path, files[path], deps, optimize_datacored_tables)
             rest == scan_files(Tail(order), files, deps, optimize_datacored_tables)
         IN [marked |-> (IF one.mark THEN <<path>> ELSE <<>>) \o rest.marked,
             decoded |-> (IF one.decode THEN <<path>> ELSE <<>>) \o rest.decoded]

\* files_to_delete.iter().for_each(|x| { self.remove(..); })
RECURSIVE remove_all(_, _)
remove_all(files, paths) ==
    IF paths = {} THEN files
    ELSE LET x == CHOOSE x \in paths : TRUE
         IN remove_all(ContainerRemove(files, x), paths \ {x})

\* an optimize that does not ask whether the vanilla data is loaded
pack_optimize_unchecked(self, deps, optimize_datacored_tables, order) ==
    LET scan == scan_files(order, self.files, deps, optimize_datacored_tables)
        files_to_delete == Range(scan.marked)
    IN [pack |-> [self EXCEPT !.files = remove_all(self.files, files_to_delete)],
        status |-> "ok",
        removed |-> files_to_delete,
        decoded |-> Range(scan.decoded)]

\* Pack::optimize: the Pack afterwards, Ok or Err, the set returned and the
\* paths on which rfile.decode was called
pack_optimize(self, deps, optimize_datacored_tables, order) ==
    IF ~deps.vanilla_loaded
    THEN [pack |-> self, status |-> "err", removed |-> {}, decoded |-> {}]
    ELSE LET scan == scan_files(order, self.files, deps, optimize_datacored_tables)
             files_to_delete == Range(scan.marked)
         IN [pack |-> [self EXCEPT !.files = remove_all(self.files, files_to_delete)],
             status |-> "ok",
             removed |-> files_to_delete,
             decoded |-> Range(scan.decoded)]

-----------------------------------------------------------------------------
(* The container optimizer as a state machine: a Pack, the dependencies,   *)
(* and one call of Pack::optimize.                                         *)

PathDBMod == "db/units_tables/mod"
PathDBData == "db/units_tables/data__"
PathLoc == "text/mod.loc"
PathImage == "ui/skin.png"
PackPaths == {PathDBMod, PathDBData, PathLoc, PathImage}

KeyValueRow == <<StringU8(<<107>>), StringU8(<<118>>), Boolean(FALSE)>>
KeyOtherRow == <<StringU8(<<107>>), StringU8(<<119>>), Boolean(FALSE)>>

\* the contents a table file of a Pack may have
PackRows(definition) ==
    IF definition = DefinitionLoc
    THEN {<<>>, <<new_row(DefinitionLoc)>>, <<KeyValueRow>>, <<KeyOtherRow, KeyValueRow>>}
    ELSE {<<>>, <<new_row(DefinitionIntStr)>>, <<<<I32(2), StringU8(<<98>>)>>>>,
          <<<<I32(1), StringU8(<<97>>)>>, <<I32(2), StringU8(<<98>>)>>>>}

TableFiles(definition) ==
    {[file_type |-> KindOf(definition), decodable |-> TRUE,
      table |-> [kind |-> KindOf(definition), definition |-> definition,
                 rows |-> rows, readable |-> TRUE]] : rows \in PackRows(definition)}
    \cup
    {[file_type |-> KindOf(definition), decodable |-> FALSE,
      table |-> [kind |-> KindOf(definition), definition |-> definition,
                 rows |-> <<>>, readable |-> TRUE]]}
    \cup
    {[file_type |-> KindOf(definition), decodable |-> TRUE,
      table |-> [kind |-> KindOf(definition), definition |-> definition,
                 rows |-> <<>>, readable |-> FALSE]]}

RFiles(path) ==
    IF path \in {PathDBMod, PathDBData} THEN TableFiles(DefinitionIntStr)
    ELSE IF path = PathLoc THEN TableFiles(DefinitionLoc)
    ELSE {[file_type |-> "Image", decodable |-> TRUE, table |-> NoTable]}

\* the Packs of at most MaxPackFiles files
Packs ==
    UNION {{[files |-> f] : f \in {g \in [paths -> UNION {RFiles(p) : p \in paths}] :
                                      \A p \in paths : g[p] \in RFiles(p)}} :
           paths \in {ps \in SUBSET PackPaths : Cardinality(ps) <= MaxPackFiles}}

PackReferences(definition) ==
    {[ok |-> FALSE, files |-> <<>>],
     [ok |-> TRUE, files |-> ReferenceFiles(<<>>, TRUE)]}
    \cup
    {[ok |-> TRUE, files |-> ReferenceFiles(rows, TRUE)] :
        rows \in {r \in PackRows(definition) : Len(r) = 1 /\ r[1] # new_row(definition)}}

DependenciesSet ==
    {[vanilla_loaded |-> loaded, files |-> files,
      db_data |-> [name \in {"units_tables", "speed_tables"} |->
                      IF name = "units_tables" THEN db
                      ELSE [ok |-> TRUE, files |-> ReferenceFiles(<<>>, TRUE)]],
      loc_data |-> loc] :
        loaded \in BOOLEAN,
        files \in SUBSET {PathDBData, PathLoc},
        db \in PackReferences(DefinitionIntStr),
        loc \in PackReferences(DefinitionLoc)}

\* the orders in which a HashMap may yield the paths of a set
Orders(paths) ==
    {o \in [1..Cardinality(paths) -> paths] : \A p \in paths : \E i \in DOMAIN o : o[i] = p}

NoOutcome ==
    [status |-> "none", removed |-> {}, decoded |-> {},
     before |-> <<>>, optimize_datacored_tables |-> FALSE]

OptInit ==
    /\ optPack \in Packs
    /\ dependencies \in DependenciesSet
    /\ optOut = NoOutcome
    /\ DecoderIdle /\ TableIdle /\ CodecIdle

OptimizePack ==
    /\ optOut.status = "none"
    /\ \E optimize_datacored_tables \in BOOLEAN, order \in Orders(DOMAIN optPack.files) :
        LET r == pack_optimize(optPack, dependencies, optimize_datacored_tables, order)
        IN /\ optPack' = r.pack
           /\ optOut' = [status |-> r.status, removed |-> r.removed, decoded |-> r.decoded,
                         before |-> optPack.files,
                         optimize_datacored_tables |-> optimize_datacored_tables]
    /\ UNCHANGED <<dependencies, decoderVars, tableVars, codecVars>>

OptNext == OptimizePack

SpecOptimize == OptInit /\ [][OptNext]_vars

\* the elements of a sequence before its first zero
RECURSIVE BeforeZero(_)
BeforeZero(s) ==
    IF s = <<>> \/ s[1] = 0 THEN <<>> ELSE <<s[1]>> \o BeforeZero(Tail(s))

\* C13: when offset + size <= len, decode_string_u8_0padded decodes the bytes
\* of the field before its first zero byte, decode_string_u16_0padded decodes
\* the 16-bit units of the field before its first zero unit, and both return
\* the declared size as the second component.
C13_ZeroPaddedStrings ==
    (/\ call.op \in {"decode_string_u8_0padded", "decode_string_u16_0padded"}
     /\ call.offset + call.size <= Len(buffer)) =>
        LET field == Slice(buffer, call.offset, call.offset + call.size)
            text == IF call.op = "decode_string_u8_0padded"
                    THEN Utf8Decode(BeforeZero(field))
                    ELSE Utf16Decode(BeforeZero(U16Units(field)))
        IN IF text[1]
           THEN result.kind = "ok" /\ result.val = text[2] /\ result.size = call.size
           ELSE result.kind = "err"

\* the two uppercase hexadecimal digits of a byte
HexOfByte(b) == <<UpperHexDigit(b \div 16), UpperHexDigit(b % 16)>>

\* C14: for the 4 bytes b0, b1, b2, b3 at offset, decode_string_colour_rgb
\* returns the 6 uppercase hexadecimal digits of b2, b1, b0 in that order,
\* whatever b3 is.
C14_ColourString ==
    (call.op = "decode_string_colour_rgb" /\ call.offset + 4 <= Len(buffer)) =>
        /\ result.kind = "ok"
        /\ result.val = HexOfByte(buffer[call.offset + 3])
                        \o HexOfByte(buffer[call.offset + 2])
                        \o HexOfByte(buffer[call.offset + 1])

\* The length-prefixed string at a position of the source, by its layout:
\* whether the length, the bytes and valid text are there, the text, and
\* the number of bytes after the length.
PrefixedString(utf16, at) ==
    IF at + 2 > Len(buffer) THEN [ok |-> FALSE, text |-> <<>>, bytes |-> 0]
    ELSE LET n == buffer[at + 1] + 256 * buffer[at + 2]
             bytes == IF utf16 THEN (2 * n) % (256 * 256) ELSE n
         IN IF at + 2 + bytes > Len(buffer) THEN [ok |-> FALSE, text |-> <<>>, bytes |-> bytes]
            ELSE LET text == IF utf16
                             THEN Utf16Decode(U16Units(Slice(buffer, at + 2, at + 2 + bytes)))
                             ELSE Utf8Decode(Slice(buffer, at + 2, at + 2 + bytes))
                 IN [ok |-> text[1], text |-> text[2], bytes |-> bytes]

\* C11: decode_packedfile_string_u8 and decode_packedfile_string_u16 read a
\* two-byte little-endian length n at offset; when the string bytes are there
\* and are valid text the call succeeds and the cursor has advanced by 2 + n
\* (UTF-8) or 2 + ((2 * n) mod 65536) (UTF-16); otherwise an error is
\* returned and the cursor is where it was before the call.
C11_StringCursor ==
    call.op \in {"decode_packedfile_string_u8", "decode_packedfile_string_u16"} =>
        LET str == PrefixedString(call.op = "decode_packedfile_string_u16", call.offset)
        IN IF str.ok
           THEN /\ result.kind = "ok"
                /\ result.val = str.text
                /\ index = call.size + 2 + str.bytes
           ELSE /\ result.kind = "err"
                /\ index = call.size

\* C11 witness: a UTF-16 string of three characters has been read and the
\* cursor has advanced by 8.
C11_Witness ==
    /\ call.op = "decode_packedfile_string_u16"
    /\ result.kind = "ok"
    /\ Len(result.val) = 3
    /\ index = call.size + 8

\* C12: for the optional string decoders a leading byte 0 returns the empty
\* string and advances the cursor by 1; a leading byte 1 followed by a valid
\* length-prefixed string returns it and advances the cursor by 1 + 2 + the
\* bytes of the string; in every other case an error is returned and the
\* cursor is where it was before the call.
C12_OptionalStringCursor ==
    call.op \in {"decode_packedfile_optional_string_u8",
                 "decode_packedfile_optional_string_u16"} =>
        LET str == PrefixedString(call.op = "decode_packedfile_optional_string_u16",
                                  call.offset + 1)
        IN IF call.offset < Len(buffer) /\ buffer[call.offset + 1] = 0
           THEN /\ result.kind = "ok"
                /\ result.val = <<>>
                /\ index = call.size + 1
           ELSE IF call.offset < Len(buffer) /\ buffer[call.offset + 1] = 1 /\ str.ok
           THEN /\ result.kind = "ok"
                /\ result.val = str.text
                /\ index = call.size + 1 + 2 + str.bytes
           ELSE /\ result.kind = "err"
                /\ index = call.size

\* C12 witness: the leading byte is 1 and the string after it failed, its
\* length having been read.
C12_Witness ==
    /\ call.op = "decode_packedfile_optional_string_u8"
    /\ call.offset + 3 <= Len(buffer)
    /\ buffer[call.offset + 1] = 1
    /\ result.kind = "err"
    /\ index = call.size

-----------------------------------------------------------------------------
(* Properties of the table optimizer.                                      *)

HasFloat(definition) == \E i \in 1..Len(definition.fields) : definition.fields[i] = "F32"

ReferenceRows == Range(FlattenReference(reference.files))

\* the given rows that are neither a reference row nor the default row
NovelRows ==
    {r \in Range(tableHist.given) : r \notin ReferenceRows /\ r # new_row(table.definition)}

RowOneA == <<I32(1), StringU8(<<97>>)>>
RowTwoB == <<I32(2), StringU8(<<98>>)>>

\* C3: for a DB table without float cells and an available reference dataset,
\* the set of rows after DB::optimize is the set of given rows that equal
\* neither a reference row nor the default row, and optimize returns true if
\* and only if that set is empty; rows [[1,"a"],[2,"b"],[1,"a"]] with the
\* reference [[2,"b"]] leave the single row [1,"a"] and return false.
C3_DBOptimizeResult ==
    (/\ table.kind = "DB"
     /\ table.readable
     /\ reference.ok
     /\ ~HasFloat(table.definition)
     /\ Len(tableHist.runs) >= 1) =>
        /\ Range(tableHist.runs[1].rows) = NovelRows
        /\ tableHist.runs[1].ret <=> (NovelRows = {})
        /\ (/\ tableHist.given = <<RowOneA, RowTwoB, RowOneA>>
            /\ FlattenReference(reference.files) = <<RowTwoB>>) =>
                /\ tableHist.runs[1].rows = <<RowOneA>>
                /\ tableHist.runs[1].ret = FALSE

\* the scenario of the claim, after the run
C3_Witness ==
    /\ table.kind = "DB"
    /\ table.readable
    /\ reference.ok
    /\ tableHist.given = <<RowOneA, RowTwoB, RowOneA>>
    /\ FlattenReference(reference.files) = <<RowTwoB>>
    /\ Len(tableHist.runs) = 1
    /\ table.rows = <<RowOneA>>

\* C4: a second run of DB::optimize (or Loc::optimize) on the optimized
\* table, with the same reference dataset, leaves the row sequence as it was
\* after the first run and returns the same boolean.
C4_OptimizeIdempotent ==
    Len(tableHist.runs) >= 2 => tableHist.runs[2] = tableHist.runs[1]

\* two runs, the first of which removed and reordered rows and left at least two
C4_Witness ==
    /\ Len(tableHist.runs) = 2
    /\ Len(tableHist.runs[1].rows) >= 2
    /\ Len(tableHist.runs[1].rows) < Len(tableHist.given)
    /\ \E i \in 1..Len(table.rows) : table.rows[i] = tableHist.given[Len(tableHist.given)]
    /\ table.rows[1] # tableHist.given[1]
    /\ table.rows[1] \in Range(tableHist.given)

\* C5 (the table's half): a DB table, whatever the cell types of its
\* definition, whose every row equals the default row or a reference row
\* makes DB::optimize return true.
C5_AllRedundantReportsEmpty ==
    (/\ table.kind = "DB"
     /\ table.readable
     /\ reference.ok
     /\ Len(tableHist.runs) >= 1
     /\ \A r \in Range(tableHist.given) :
            r = new_row(table.definition) \/ r \in ReferenceRows) =>
        tableHist.runs[1].ret = TRUE

-----------------------------------------------------------------------------
(* rpfm_lib::files::pack::pack_versions::pfh4: the PFH4 codec.             *)
(* A Pack is [header, dependencies, files]; header is [bitmask,            *)
(* pfh_file_type, timestamp]; files maps a path to an RFile.  An RFile     *)
(* held in memory is [data, timestamp]; an RFile built by the reader is    *)
(* [start, size, timestamp], a location in the stream.  Strings are        *)
(* sequences of ASCII codes.  A u64 is [upper, lower], its upper and lower *)
(* 32 bits; every u32 the codec handles here is below 2^31.                *)

U64(upper, lower) == [upper |-> upper, lower |-> lower]
\* x as u32
AsU32(x) == x.lower
\* u64::from(n)
U64From(n) == U64(0, n)

\* A u64 position of the stream is kept as upper * 2^30 + lower with
\* lower < 2^30, so that the sum of u32 sizes is exact.
PositionBase == 1024 * 1024 * 1024
PositionOf(n) == [upper |-> n \div PositionBase, lower |-> n % PositionBase]
\* position + u64::from(size)
PositionAdd(position, size) ==
    LET low == position.lower + (size % PositionBase)
    IN [upper |-> position.upper + (size \div PositionBase) + (low \div PositionBase),
        lower |-> low % PositionBase]

\* PFHFlags
HAS_EXTENDED_HEADER == 256
HAS_ENCRYPTED_INDEX == 128
HAS_INDEX_WITH_TIMESTAMPS == 64
HAS_ENCRYPTED_DATA == 16
\* PFHFileType::Mod.value()
PFHFileTypeMod == 3
\* PFHVersion::PFH4.value(), "PFH4"
PFH4Value == <<80, 70, 72, 52>>

\* bitmask.contains(flag)
Contains(bitmask, flag) == BitAnd(bitmask, flag) = flag

\* WriteBytes::write_u32, little endian
write_u32(n) ==
    <<n % 256, (n \div 256) % 256, (n \div (256 * 256)) % 256,
      (n \div (256 * 256 * 256)) % 256>>

\* WriteBytes::write_string_u8_0terminated
write_string_u8_0terminated(str) == str \o <<0>>

\* The results of the reads: a value and the position after it, or a failure.
ReadOk(v, pos) == [ok |-> TRUE, val |-> v, pos |-> pos]
ReadFailed == [ok |-> FALSE, val |-> <<>>, pos |-> 0]

\* ReadBytes::read_u32 at a position of a byte sequence
read_u32(data, pos) ==
    IF pos + 4 > Len(data) THEN ReadFailed
    ELSE ReadOk(data[pos + 1] + 256 * data[pos + 2] + 256 * 256 * data[pos + 3]
                  + 256 * 256 * 256 * data[pos + 4], pos + 4)

\* ReadBytes::read_slice(size, false)
read_slice(data, pos, size) ==
    IF pos + size > Len(data) THEN ReadFailed
    ELSE ReadOk(Slice(data, pos, pos + size), pos + size)

\* ReadBytes::read_string_u8_0terminated: the bytes up to the next zero
\* byte, which is consumed
RECURSIVE read_string_u8_0terminated(_, _)
read_string_u8_0terminated(data, pos) ==
    IF pos >= Len(data) THEN ReadFailed
    ELSE IF data[pos + 1] = 0 THEN ReadOk(<<>>, pos + 1)
    ELSE LET rest == read_string_u8_0terminated(data, pos + 1)
         IN IF rest.ok THEN ReadOk(<<data[pos + 1]>> \o rest.val, rest.pos)
            ELSE ReadFailed

\* a ^ b
BitXor(a, b) == BitOr(a, b) - BitAnd(a, b)

\* Decryptable::decrypt_u32(second_key): four bytes are consumed and
\* transformed with the key; the transform stands for the cipher.
decrypt_u32(data, pos, second_key) ==
    LET bytes == read_u32(data, pos)
    IN IF ~bytes.ok THEN ReadFailed
       ELSE ReadOk(BitXor(bytes.val, second_key), bytes.pos)

\* Decryptable::decrypt_string(second_key): bytes are consumed and
\* transformed with the key up to the byte that decrypts to zero.
RECURSIVE decrypt_string(_, _, _)
decrypt_string(data, pos, second_key) ==
    IF pos >= Len(data) THEN ReadFailed
    ELSE LET c == BitXor(data[pos + 1], second_key)
         IN IF c = 0 THEN ReadOk(<<>>, pos + 1)
            ELSE LET rest == decrypt_string(data, pos + 1, second_key)
                 IN IF rest.ok THEN ReadOk(<<c>> \o rest.val, rest.pos)
                    ELSE ReadFailed

\* char::to_lowercase on ASCII, and str::to_lowercase
LowerChar(c) == IF c >= 65 /\ c <= 90 THEN c + 32 ELSE c
to_lowercase(str) == [i \in 1..Len(str) |-> LowerChar(str[i])]

\* the orders sort_unstable_by_key(|(path, _)| path.to_lowercase()) may leave
\* the files in: any order of the paths with the keys ascending
SortedFiles(files) ==
    {o \in [1..Cardinality(DOMAIN files) -> DOMAIN files] :
        /\ \A path \in DOMAIN files : \E i \in DOMAIN o : o[i] = path
        /\ \A i \in 1..(Len(o) - 1) : StrCmp(to_lowercase(o[i]), to_lowercase(o[i + 1])) <= 0}

\* RFile::encode(extra_data, false, false, true) of a file held in memory,
\* when it succeeds
RFileEncode(file) == file.data

\* the errors of the files whose encode fails, each naming its file
encode_errors(self) ==
    {<<"EncodeError", path>> : path \in {p \in DOMAIN self.files : ~self.files[p].encodable}}

\* the index entry of one file
file_index_entry(self, path, file) ==
    write_u32(Len(RFileEncode(file)))
    \o (IF Contains(self.header.bitmask, HAS_INDEX_WITH_TIMESTAMPS)
        THEN write_u32(AsU32(file.timestamp)) ELSE <<>>)
    \o write_string_u8_0terminated(path)

RECURSIVE files_index(_, _)
files_index(self, sorted_files) ==
    IF sorted_files = <<>> THEN <<>>
    ELSE file_index_entry(self, sorted_files[1], self.files[sorted_files[1]])
         \o files_index(self, Tail(sorted_files))

RECURSIVE files_data(_, _)
files_data(self, sorted_files) ==
    IF sorted_files = <<>> THEN <<>>
    ELSE RFileEncode(self.files[sorted_files[1]]) \o files_data(self, Tail(sorted_files))

RECURSIVE dependencies_index(_)
dependencies_index(deps) ==
    IF deps = <<>> THEN <<>>
    ELSE write_string_u8_0terminated(deps[1]) \o dependencies_index(Tail(deps))

\* the header of write_pfh4
pfh4_header(self, sorted_files) ==
    PFH4Value
    \o write_u32(BitOr(self.header.bitmask, self.header.pfh_file_type))
    \o write_u32(Len(self.dependencies))
    \o write_u32(Len(dependencies_index(self.dependencies)))
    \o write_u32(Len(sorted_files))
    \o write_u32(Len(files_index(self, sorted_files)))
    \o write_u32(AsU32(self.header.timestamp))

\* a write that puts the file data before the file index
write_pfh4_data_before_index(self, sorted_files) ==
    pfh4_header(self, sorted_files)
    \o dependencies_index(self.dependencies)
    \o files_data(self, sorted_files)
    \o files_index(self, sorted_files)

\* Pack::write_pfh4 in test mode: the bytes written to the buffer
write_pfh4(self, sorted_files) ==
    pfh4_header(self, sorted_files)
    \o dependencies_index(self.dependencies)
    \o files_index(self, sorted_files)
    \o files_data(self, sorted_files)


\* a write that leaves out the files whose encode failed
write_pfh4_skipping_failed(self, sorted_files, out, error) ==
    [status |-> "ok", error |-> <<>>,
     buffer |-> out \o write_pfh4(self, SelectSeq(sorted_files,
                                         LAMBDA path : self.files[path].encodable))]

\* Pack::write_pfh4 as a call: Ok(()) or the error that collect() returns,
\* one of the errors of the files that failed, and the output buffer
\* afterwards.  Nothing is written before every file has been encoded.
write_pfh4_call(self, sorted_files, out, error) ==
    IF encode_errors(self) # {}
    THEN [status |-> "err", error |-> error, buffer |-> out]
    ELSE [status |-> "ok", error |-> <<>>,
          buffer |-> out \o write_pfh4(self, sorted_files)]

\* The outcome of a read: Ok(data_pos) or Err(error), and self as the call
\* leaves it.
\* It also keeps what the call did on the way: the file entries in the order
\* they were built, the keys given to decrypt_u32 in the order of the calls,
\* and the position of the stream when the call returns.
NoEntries == [entries |-> <<>>, decrypted |-> <<>>]
PackRead(self, data_pos, files, position) ==
    [status |-> "ok", error |-> "", pack |-> self, data_pos |-> data_pos,
     entries |-> files.entries, decrypted |-> files.decrypted, position |-> position]
PackFailed(self, error, files, position) ==
    [status |-> "err", error |-> error, pack |-> self, data_pos |-> PositionOf(0),
     entries |-> files.entries, decrypted |-> files.decrypted, position |-> position]

\* RFile::new_from_container(self, size, false, None, data_pos, timestamp, &path)
new_from_container(size, data_pos, timestamp) ==
    [start |-> data_pos, size |-> size, timestamp |-> timestamp]

\* Container::add_file
add_file(files, path, file) ==
    [p \in DOMAIN files \cup {path} |-> IF p = path THEN file ELSE files[p]]

\* for _ in 0..packs_count { self.dependencies.push(read_string_u8_0terminated()?) }
RECURSIVE read_dependencies(_, _, _, _)
read_dependencies(self, buffer_mem, pos, packs_count) ==
    IF packs_count = 0 THEN [ok |-> TRUE, self |-> self, pos |-> pos]
    ELSE LET dependency == read_string_u8_0terminated(buffer_mem, pos)
         IN IF ~dependency.ok THEN [ok |-> FALSE, self |-> self, pos |-> pos]
            ELSE read_dependencies(
                    [self EXCEPT !.dependencies = Append(@, dependency.val)],
                    buffer_mem, dependency.pos, packs_count - 1)

\* a counter that runs from files_count down to 1
files_to_read_from_count(remaining) == remaining

\* the value of files_to_read in (0..files_count).rev() when so many
\* entries are still to be read
files_to_read_value(remaining) == remaining - 1

\* a data_pos that stays where the data section starts
next_data_pos_unmoved(data_pos, size) == data_pos

\* data_pos += u64::from(size)
next_data_pos(data_pos, size) == PositionAdd(data_pos, size)

\* for files_to_read in (0..files_count).rev() { .. }: remaining entries are
\* still to be read from buffer_mem at pos
RECURSIVE read_files(_, _, _, _, _)
read_files(self, buffer_mem, pos, remaining, data_pos) ==
    IF remaining = 0
    THEN [ok |-> TRUE, self |-> self, data_pos |-> data_pos,
          entries |-> <<>>, decrypted |-> <<>>]
    ELSE LET files_to_read == files_to_read_value(remaining)
             encrypted == Contains(self.header.bitmask, HAS_ENCRYPTED_INDEX)
             has_timestamp == Contains(self.header.bitmask, HAS_INDEX_WITH_TIMESTAMPS)
             size == IF encrypted THEN decrypt_u32(buffer_mem, pos, files_to_read)
                     ELSE read_u32(buffer_mem, pos)
             timestamp == IF ~size.ok THEN ReadFailed
                          ELSE IF ~has_timestamp THEN ReadOk(0, size.pos)
                          ELSE IF encrypted
                          THEN decrypt_u32(buffer_mem, size.pos, files_to_read)
                          ELSE read_u32(buffer_mem, size.pos)
             path == IF ~timestamp.ok THEN ReadFailed
                     ELSE IF encrypted
                     THEN decrypt_string(buffer_mem, timestamp.pos, size.val % 256)
                     ELSE read_string_u8_0terminated(buffer_mem, timestamp.pos)
             keys == IF ~encrypted THEN <<>>
                     ELSE IF size.ok /\ has_timestamp THEN <<files_to_read, files_to_read>>
                     ELSE <<files_to_read>>
         IN IF ~size.ok \/ ~timestamp.ok \/ ~path.ok
            THEN [ok |-> FALSE, self |-> self, data_pos |-> data_pos,
                  entries |-> <<>>, decrypted |-> keys]
            ELSE LET file == new_from_container(size.val, data_pos, U64From(timestamp.val))
                     rest == read_files(
                                [self EXCEPT !.files = add_file(@, path.val, file)],
                                buffer_mem, path.pos, remaining - 1,
                                next_data_pos(data_pos, size.val))
                 IN [rest EXCEPT !.entries = <<[path |-> path.val, file |-> file]>> \o @,
                                 !.decrypted = keys \o @]

\* Pack::read_pfh4: data is the whole stream, which the caller has read up to
\* the end of the preamble; data_len is extra_data.disk_file_size and
\* extra_data.disk_file_offset is 0.
PreambleLen == 8

read_pfh4(self, data, data_len) ==
    LET packs_count == read_u32(data, PreambleLen)
        packs_index_size == read_u32(data, PreambleLen + 4)
        files_count == read_u32(data, PreambleLen + 8)
        files_index_size == read_u32(data, PreambleLen + 12)
        timestamp == read_u32(data, PreambleLen + 16)
    IN IF ~timestamp.ok THEN PackFailed(self, "Io", NoEntries, Len(data))
       ELSE
       LET self1 == [self EXCEPT !.header.timestamp = U64From(timestamp.val)]
           extended == Contains(self.header.bitmask, HAS_EXTENDED_HEADER)
       IN IF (extended /\ data_len < 44) \/ (~extended /\ data_len < 24)
          THEN PackFailed(self1, "PackFileHeaderNotComplete", NoEntries, timestamp.pos)
          ELSE
          LET extra_header_size == IF extended THEN 20 ELSE 0
              indexes_size == extra_header_size + packs_index_size.val + files_index_size.val
              buffer_data == read_slice(data, timestamp.pos, indexes_size)
          IN IF ~buffer_data.ok THEN PackFailed(self1, "Io", NoEntries, Len(data))
             ELSE IF data_len < buffer_data.pos
             THEN PackFailed(self1, "PackFileIndexesNotComplete", NoEntries, buffer_data.pos)
             ELSE
             LET deps == read_dependencies(self1, buffer_data.val, 0, packs_count.val)
             IN IF ~deps.ok THEN PackFailed(deps.self, "Io", NoEntries, buffer_data.pos)
                ELSE
                LET files == read_files(deps.self, buffer_data.val, deps.pos,
                                        files_count.val, PositionOf(buffer_data.pos))
                IN IF ~files.ok THEN PackFailed(files.self, "Io", files, buffer_data.pos)
                   ELSE PackRead(files.self, files.data_pos, files, buffer_data.pos)

\* What the caller of read_pfh4 has done: a new Pack whose flags and file
\* type are those of the second word of the preamble.
pack_from_preamble(data) ==
    LET word == read_u32(data, 4).val
    IN [header |-> [bitmask |-> word - (word % 16), pfh_file_type |-> word % 16,
                    timestamp |-> U64From(0)],
        dependencies |-> <<>>,
        files |-> <<>>]

-----------------------------------------------------------------------------
(* The codec as a state machine: a Pack is written in test mode and the    *)
(* bytes are read back.                                                    *)

DependencyNames == {<<100>>, <<101, 101>>}
CodecPaths == {<<97>>, <<66>>, <<98>>}
LongData == [i \in 1..24 |-> i]
FileData == {<<>>, <<1>>, LongData}
HeaderTimestamps == {U64(0, 7), U64(1, 7)}
FileTimestamps == {U64(0, 0), U64(0, 5)}
Bitmasks ==
    {0, HAS_EXTENDED_HEADER, HAS_INDEX_WITH_TIMESTAMPS,
     BitOr(HAS_EXTENDED_HEADER, HAS_INDEX_WITH_TIMESTAMPS),
     HAS_ENCRYPTED_INDEX, BitOr(HAS_ENCRYPTED_INDEX, HAS_INDEX_WITH_TIMESTAMPS)}

MemoryFiles ==
    [data : FileData, timestamp : FileTimestamps, encodable : {TRUE}]
    \cup {[data |-> <<>>, timestamp |-> U64(0, 0), encodable |-> FALSE]}

CodecPacks ==
    UNION {[header : [bitmask : Bitmasks, pfh_file_type : {PFHFileTypeMod},
                      timestamp : HeaderTimestamps],
            dependencies : SeqsUpTo(DependencyNames, MaxDeps),
            files : [paths -> MemoryFiles]] :
           paths \in {ps \in SUBSET CodecPaths : Cardinality(ps) <= MaxFiles}}

NoRead ==
    [status |-> "none", error |-> "", pack |-> <<>>, data_pos |-> PositionOf(0),
     entries |-> <<>>, decrypted |-> <<>>, position |-> 0]

NoWrite == [status |-> "none", error |-> <<>>]

\* the header that write_pfh4 writes: the preamble and five words
HeaderLen == PreambleLen + 20
\* lengths of a stream cut inside the header or just after the words that
\* read_pfh4 reads first
TruncatedLengths == {PreambleLen, PreambleLen + 12, PreambleLen + 16}
ExtendedHeaderBytes == {0, 7}

CodecInit ==
    /\ pack \in CodecPacks
    /\ stream = <<>>
    /\ writeOut = NoWrite
    /\ readPack = NoRead
    /\ codecPc = "new"
    /\ DecoderIdle /\ TableIdle /\ OptIdle

WritePfh4 ==
    /\ codecPc = "new"
    /\ \E sorted_files \in SortedFiles(pack.files),
          error \in (IF encode_errors(pack) = {} THEN {<<>>} ELSE encode_errors(pack)) :
          LET r == write_pfh4_call(pack, sorted_files, stream, error)
          IN /\ stream' = r.buffer
             /\ writeOut' = [status |-> r.status, error |-> r.error]
             /\ codecPc' = IF r.status = "ok" THEN "written" ELSE "failed"
    /\ UNCHANGED <<pack, readPack, decoderVars, tableVars, optVars>>

\* The stream a reader is given need not be one a writer produced: here one
\* of the counts of the header (packs_count at byte 8, files_count at byte
\* 16) declares one entry more than the indexes hold, or the last byte of
\* the stream is missing.
Tamper ==
    /\ codecPc = "written"
    /\ \/ \E at \in {PreambleLen, PreambleLen + 8} :
             stream' = [stream EXCEPT ![at + 1] = @ + 1]
       \/ stream' = SubSeq(stream, 1, Len(stream) - 1)
    /\ codecPc' = "tampered"
    /\ UNCHANGED <<pack, writeOut, readPack, decoderVars, tableVars, optVars>>

\* The stream ends before the header does: only its first bytes are there.
Truncate ==
    /\ codecPc = "written"
    /\ \E length \in TruncatedLengths : stream' = SubSeq(stream, 1, length)
    /\ codecPc' = "truncated"
    /\ UNCHANGED <<pack, writeOut, readPack, decoderVars, tableVars, optVars>>

\* A stream whose flags declare an extended header carries its 20 bytes
\* between the timestamp of the header and the indexes.
ExtendHeader ==
    /\ codecPc = "written"
    /\ Contains(pack.header.bitmask, HAS_EXTENDED_HEADER)
    /\ \E b \in ExtendedHeaderBytes :
           stream' = SubSeq(stream, 1, HeaderLen) \o [i \in 1..20 |-> b]
                     \o SubSeq(stream, HeaderLen + 1, Len(stream))
    /\ codecPc' = "extended"
    /\ UNCHANGED <<pack, writeOut, readPack, decoderVars, tableVars, optVars>>

ReadPfh4 ==
    /\ codecPc \in {"written", "tampered", "truncated", "extended"}
    /\ readPack' = read_pfh4(pack_from_preamble(stream), stream, Len(stream))
    /\ codecPc' = IF codecPc = "written" THEN "read" ELSE "read_" \o codecPc
    /\ UNCHANGED <<pack, stream, writeOut, decoderVars, tableVars, optVars>>

CodecNext == WritePfh4 \/ Tamper \/ Truncate \/ ExtendHeader \/ ReadPfh4

SpecCodec == CodecInit /\ [][CodecNext]_vars

\* the canonical form of a row: float cells as their 4-decimal text
CanonicalForm(row) == JsonRow(FloatsToStrings(row))

\* C21: for a DB table with float columns and an available reference
\* dataset, after DB::optimize no row has the canonical form of a reference
\* row or of the default row of the table.
C21_CanonicalFormRemoval ==
    (/\ table.kind = "DB"
     /\ table.readable
     /\ reference.ok
     /\ HasFloat(table.definition)
     /\ Len(tableHist.runs) >= 1) =>
        \A i \in DOMAIN table.rows :
            /\ \A r \in ReferenceRows : CanonicalForm(table.rows[i]) # CanonicalForm(r)
            /\ CanonicalForm(table.rows[i]) # CanonicalForm(new_row(table.definition))

\* C20: after DB::optimize with an available reference dataset no two rows
\* of the table are equal, whatever the arrangement of the rows given.
C20_NoDuplicateRows ==
    (/\ table.kind = "DB"
     /\ table.readable
     /\ reference.ok
     /\ Len(tableHist.runs) >= 1) =>
        \A i, j \in DOMAIN table.rows : i # j => table.rows[i] # table.rows[j]

\* C29: when decode_packedfile_integer_cauleb128 fails, the cursor is where
\* it was before the call.
C29_Cauleb128CursorOnFailure ==
    (call.op = "decode_packedfile_integer_cauleb128" /\ result.kind = "err") =>
        index = call.offset

\* the width in bytes of the integer an optional integer decoder reads
OptionalIntegerWidth ==
    IF call.op = "decode_packedfile_optional_integer_i16" THEN 2
    ELSE IF call.op = "decode_packedfile_optional_integer_i32" THEN 4
    ELSE 8

\* the integer of the given width stored in the buffer at a position
IntegerAt(at, width) ==
    LET bytes == SubSeq(buffer, at + 1, at + width)
    IN IF width = 2 THEN <<LittleEndianReadI16(bytes)>>
       ELSE IF width = 4 THEN <<LittleEndianReadI32(bytes)>>
       ELSE LittleEndianReadI64(bytes)

\* C30: a successful decode_packedfile_optional_integer_i16, _i32 or _i64
\* advances the cursor by 3, 5 or 9, the boolean byte and the integer, and
\* returns the integer stored after the boolean byte; a failed one leaves the
\* cursor where it was.  call.size is the cursor before the call.
C30_OptionalIntegerCursor ==
    call.op \in {"decode_packedfile_optional_integer_i16",
                 "decode_packedfile_optional_integer_i32",
                 "decode_packedfile_optional_integer_i64"} =>
        IF result.kind = "ok"
        THEN /\ index = call.size + 1 + OptionalIntegerWidth
             /\ Len(buffer) >= call.offset + 1 + OptionalIntegerWidth
             /\ result.val = IntegerAt(call.offset + 1, OptionalIntegerWidth)
        ELSE index = call.size

\* The reference rows of a Loc in the order they are merged, and the value
\* the merge keeps for a key: that of the last reference row with the key.
ReferenceSeq == FlattenReference(reference.files)
HasReferenceKey(key) == \E i \in DOMAIN ReferenceSeq : ReferenceSeq[i][1].v = key
ReferenceValue(key) ==
    LET last == CHOOSE i \in DOMAIN ReferenceSeq :
                    /\ ReferenceSeq[i][1].v = key
                    /\ \A j \in DOMAIN ReferenceSeq : ReferenceSeq[j][1].v = key => j <= i
    IN ReferenceSeq[last][2].v

KeysAscend(rows) ==
    \A i \in 1..(Len(rows) - 1) : StrCmp(rows[i][1].v, rows[i + 1][1].v) <= 0

AfterLocOptimize ==
    /\ table.kind = "Loc"
    /\ table.readable
    /\ reference.ok
    /\ Len(tableHist.runs) >= 1

\* C22 as amended: after Loc::optimize the rows of the table are the given
\* rows that are not the default row and whose value is not the value kept
\* for their key, which is that of the last reference row with the key,
\* whatever their third column; they are in non-decreasing order of the key.
C22_LocOptimizeRule ==
    AfterLocOptimize =>
        /\ Range(tableHist.runs[1].rows)
              = {r \in Range(tableHist.given) :
                    /\ r # new_row(table.definition)
                    /\ ~(HasReferenceKey(r[1].v) /\ r[2].v = ReferenceValue(r[1].v))}
        /\ KeysAscend(tableHist.runs[1].rows)

\* C22 witness: two reference rows have one key and different values; the
\* row with the later value was removed and the row with the earlier stayed.
C22_Witness ==
    /\ AfterLocOptimize
    /\ ReferenceSeq = <<KeyValueRow, KeyOtherRow>>
    /\ tableHist.given = <<KeyOtherRow, KeyValueRow>>
    /\ table.rows = <<KeyValueRow>>

\* C22 as stated: after Loc::optimize no row has the key and the value of a
\* reference row, no row is the default row, every other given row is still
\* there, and the keys are in non-decreasing order.
C22_LocRuleAnyReferenceRow ==
    AfterLocOptimize =>
        /\ Range(tableHist.runs[1].rows)
              = {r \in Range(tableHist.given) :
                    /\ r # new_row(table.definition)
                    /\ ~\E i \in DOMAIN ReferenceSeq :
                          ReferenceSeq[i][1].v = r[1].v /\ ReferenceSeq[i][2].v = r[2].v}
        /\ KeysAscend(tableHist.runs[1].rows)

-----------------------------------------------------------------------------
(* Properties of the container optimizer.                                  *)

IsTableFile(rfile) == rfile.file_type \in {"DB", "Loc"}

\* what the file's own optimize reports against the reference data
ReportsEmpty(rfile) ==
    IF rfile.file_type = "DB"
    THEN DBOptimize(rfile.table, dependencies.db_data[table_name(rfile.table)]).ret
    ELSE LocOptimize(rfile.table, dependencies.loc_data).ret

Untouched(path) ==
    /\ path \in DOMAIN optPack.files
    /\ optPack.files[path] = optOut.before[path]
    /\ path \notin optOut.removed

\* C6: with optimize_datacored_tables false, a DB or Loc file whose path
\* exists in the reference data is not decoded, not modified and not removed;
\* with the flag true it is decoded, and removed exactly when it decodes and
\* its optimize reports empty, as any other table file.
C6_SkipRule ==
    optOut.status = "ok" =>
        \A path \in DOMAIN optOut.before :
            (IsTableFile(optOut.before[path]) /\ file_exists(dependencies, path)) =>
                IF optOut.optimize_datacored_tables
                THEN /\ path \in optOut.decoded
                     /\ path \in optOut.removed
                            <=> (optOut.before[path].decodable
                                 /\ ReportsEmpty(optOut.before[path]))
                     /\ path \notin optOut.removed => Untouched(path)
                ELSE /\ path \notin optOut.decoded
                     /\ Untouched(path)

\* C6 witness: the flag is false and a table whose only row is a reference
\* row, at a path of the reference data, is still in the Pack after a
\* successful call.
C6_Witness ==
    /\ optOut.status = "ok"
    /\ ~optOut.optimize_datacored_tables
    /\ PathDBData \in DOMAIN optOut.before
    /\ file_exists(dependencies, PathDBData)
    /\ optOut.before[PathDBData].decodable
    /\ optOut.before[PathDBData].table.rows = <<RowTwoB>>
    /\ FlattenReference(dependencies.db_data["units_tables"].files) = <<RowTwoB>>
    /\ PathDBData \in DOMAIN optPack.files

\* C7: when the vanilla data is not loaded the call returns an error, decodes
\* no file, and leaves the files of the Pack as they were.
C7_VanillaNotLoaded ==
    (optOut.status # "none" /\ ~dependencies.vanilla_loaded) =>
        /\ optOut.status = "err"
        /\ optOut.decoded = {}
        /\ optOut.removed = {}
        /\ optPack.files = optOut.before

\* C7 witness: a failed call on a Pack holding a table that a successful call
\* would have removed.
C7_Witness ==
    /\ optOut.status = "err"
    /\ ~dependencies.vanilla_loaded
    /\ PathDBMod \in DOMAIN optPack.files
    /\ optPack.files[PathDBMod].decodable
    /\ ReportsEmpty(optPack.files[PathDBMod])

\* C8: after a successful call the returned set is the paths that were in the
\* Pack and no longer are; each of them was a DB or Loc file that decoded and
\* whose optimize reported empty; files of other types and files that did
\* not decode are present and unchanged.
C8_RemovedSetExact ==
    optOut.status = "ok" =>
        /\ optOut.removed = DOMAIN optOut.before \ DOMAIN optPack.files
        /\ DOMAIN optPack.files \subseteq DOMAIN optOut.before
        /\ \A path \in optOut.removed :
              /\ IsTableFile(optOut.before[path])
              /\ optOut.before[path].decodable
              /\ ReportsEmpty(optOut.before[path])
        /\ \A path \in DOMAIN optOut.before :
              (~IsTableFile(optOut.before[path]) \/ ~optOut.before[path].decodable)
                  => Untouched(path)

\* C8 witness: a successful call that removed one table and kept an
\* undecodable table and a file of another type.
C8_Witness ==
    /\ optOut.status = "ok"
    /\ optOut.removed = {PathDBMod}
    /\ PathLoc \in DOMAIN optPack.files
    /\ ~optPack.files[PathLoc].decodable
    /\ PathImage \in DOMAIN optPack.files

\* the reference data a table file is optimized against
ReferenceOf(rfile) ==
    IF rfile.file_type = "DB" THEN dependencies.db_data[table_name(rfile.table)]
    ELSE dependencies.loc_data

\* the file's own optimize against the reference data
OwnOptimize(rfile) ==
    IF rfile.file_type = "DB" THEN DBOptimize(rfile.table, ReferenceOf(rfile))
    ELSE LocOptimize(rfile.table, ReferenceOf(rfile))

SoftFails(rfile) ==
    /\ IsTableFile(rfile)
    /\ rfile.decodable
    /\ (~rfile.table.readable \/ ~ReferenceOf(rfile).ok)

\* C23: when the reference data of a table cannot be obtained or the rows of
\* the table cannot be read, the table's optimize returns false and leaves
\* the table as it was, also when the table has no rows; Pack::optimize does
\* not remove the file and, the vanilla data being loaded, returns success.
C23_SoftFail ==
    (optOut.status # "none" /\ dependencies.vanilla_loaded) =>
        /\ optOut.status = "ok"
        /\ \A path \in DOMAIN optOut.before :
              SoftFails(optOut.before[path]) =>
                  /\ OwnOptimize(optOut.before[path])
                        = [table |-> optOut.before[path].table, ret |-> FALSE]
                  /\ Untouched(path)

\* C23 witness: a successful call, with every table examined, kept a DB
\* table without rows whose reference data could not be obtained and a Loc
\* whose rows could not be read.
C23_Witness ==
    /\ optOut.status = "ok"
    /\ optOut.optimize_datacored_tables
    /\ PathDBMod \in DOMAIN optOut.before
    /\ optOut.before[PathDBMod].decodable
    /\ optOut.before[PathDBMod].table.readable
    /\ optOut.before[PathDBMod].table.rows = <<>>
    /\ ~dependencies.db_data["units_tables"].ok
    /\ PathLoc \in DOMAIN optOut.before
    /\ optOut.before[PathLoc].decodable
    /\ ~optOut.before[PathLoc].table.readable
    /\ dependencies.loc_data.ok
    /\ {PathDBMod, PathLoc} \subseteq DOMAIN optPack.files

\* the table files the scan examines: all of them with the flag set, else
\* those whose path is not in the reference data
Examined(path) ==
    /\ IsTableFile(optOut.before[path])
    /\ (optOut.optimize_datacored_tables \/ ~file_exists(dependencies, path))

\* C24: a successful call returns the same set and leaves the same files
\* whatever the order in which the files are met; every examined file whose
\* optimize reported empty is in the returned set; every examined file was
\* evaluated, on the contents it had before the call.
C24_OrderIndependence ==
    optOut.status = "ok" =>
        /\ \A order \in Orders(DOMAIN optOut.before) :
              LET other == pack_optimize([files |-> optOut.before], dependencies,
                                         optOut.optimize_datacored_tables, order)
              IN /\ other.removed = optOut.removed
                 /\ other.pack = optPack
                 /\ other.decoded = optOut.decoded
        /\ optOut.decoded = {path \in DOMAIN optOut.before : Examined(path)}
        /\ \A path \in DOMAIN optOut.before :
              (Examined(path) /\ optOut.before[path].decodable
                  /\ ReportsEmpty(optOut.before[path])) => path \in optOut.removed

\* C24 witness: a successful call on three table files removed two of them,
\* and kept the third, which was evaluated as well.
C24_Witness ==
    /\ optOut.status = "ok"
    /\ DOMAIN optOut.before = {PathDBMod, PathDBData, PathLoc}
    /\ optOut.decoded = {PathDBMod, PathDBData, PathLoc}
    /\ optOut.removed = {PathDBMod, PathLoc}
    /\ DOMAIN optPack.files = {PathDBData}

\* the table the file's own optimize leaves, against the reference data
OptimizedTable(rfile) ==
    IF rfile.file_type = "DB"
    THEN DBOptimize(rfile.table, dependencies.db_data[table_name(rfile.table)]).table
    ELSE LocOptimize(rfile.table, dependencies.loc_data).table

\* C19: after a successful Pack::optimize every DB or Loc file that is still
\* in the Pack and was decoded, not skipped by the same-path rule, holds the
\* rows its optimize left: no reference row, no default row, no duplicate.
C19_OptimizedRowsStored ==
    optOut.status = "ok" =>
        \A path \in DOMAIN optPack.files :
            (/\ IsTableFile(optPack.files[path])
             /\ optPack.files[path].decodable
             /\ path \in optOut.decoded)
                => optPack.files[path].table.rows
                      = OptimizedTable(optOut.before[path]).rows

-----------------------------------------------------------------------------
(* Properties of the PFH4 codec.                                           *)

\* the bytes of the stream at the location an RFile records
InStream(file) ==
    /\ file.start.upper = 0
    /\ file.start.lower <= Len(stream)
    /\ file.size <= Len(stream) - file.start.lower
StreamContents(file) == Slice(stream, file.start.lower, file.start.lower + file.size)

\* the timestamps of the Pack fit in 32 bits, and its files carry timestamps
\* only when the index has them
TimestampsWritable(self) ==
    /\ self.header.timestamp.upper = 0
    /\ \A path \in DOMAIN self.files :
          /\ self.files[path].timestamp.upper = 0
          /\ Contains(self.header.bitmask, HAS_INDEX_WITH_TIMESTAMPS)
                \/ self.files[path].timestamp = U64From(0)

\* C1: reading the bytes write_pfh4 produced in test mode for a Pack without
\* encryption or compression succeeds and yields the same header timestamp,
\* the same dependencies in the same order and the same files: paths, sizes,
\* timestamps, and contents at the recorded offsets.  Stated for the Packs
\* whose timestamps the format can hold.
C1_PackRoundTrip ==
    (/\ codecPc = "read"
     /\ TimestampsWritable(pack)
     /\ ~Contains(pack.header.bitmask, HAS_ENCRYPTED_INDEX)) =>
        /\ readPack.status = "ok"
        /\ readPack.pack.header.timestamp = pack.header.timestamp
        /\ readPack.pack.dependencies = pack.dependencies
        /\ DOMAIN readPack.pack.files = DOMAIN pack.files
        /\ \A path \in DOMAIN pack.files :
              /\ readPack.pack.files[path].size = Len(pack.files[path].data)
              /\ readPack.pack.files[path].timestamp = pack.files[path].timestamp
              /\ InStream(readPack.pack.files[path])
              /\ StreamContents(readPack.pack.files[path]) = pack.files[path].data

\* the states in which read_pfh4 has returned
AfterRead == codecPc \in {"read", "read_tampered", "read_truncated", "read_extended"}

\* the position of the stream just after the index region that its header
\* declares: the header, the extended header if flagged, and the two indexes
IndexEnd ==
    HeaderLen
    + (IF Contains(pack_from_preamble(stream).header.bitmask, HAS_EXTENDED_HEADER)
       THEN 20 ELSE 0)
    + read_u32(stream, PreambleLen + 4).val
    + read_u32(stream, PreambleLen + 12).val

\* start plus the sizes of the first n entries
RECURSIVE OffsetAfter(_, _, _)
OffsetAfter(start, entries, n) ==
    IF n = 0 THEN start
    ELSE PositionAdd(OffsetAfter(start, entries, n - 1), entries[n].file.size)

PositionLeq(a, b) == a.upper < b.upper \/ (a.upper = b.upper /\ a.lower <= b.lower)

\* C25: after a successful read the k-th file entry of the index is located
\* at the position just after the index region plus the sizes of the entries
\* before it, so that no two ranges overlap; the value returned is that
\* position plus the sizes of all entries; the stream has been consumed up
\* to the end of the index region and no further; the files of the Pack are
\* the entries.
C25_CumulativeOffsets ==
    (AfterRead /\ readPack.status = "ok") =>
        LET entries == readPack.entries
            start == PositionOf(IndexEnd)
        IN /\ \A k \in DOMAIN entries :
                 entries[k].file.start = OffsetAfter(start, entries, k - 1)
           /\ \A i, j \in DOMAIN entries :
                 i < j => PositionLeq(PositionAdd(entries[i].file.start,
                                                  entries[i].file.size),
                                      entries[j].file.start)
           /\ readPack.data_pos = OffsetAfter(start, entries, Len(entries))
           /\ readPack.position = IndexEnd
           /\ DOMAIN readPack.pack.files = {entries[k].path : k \in DOMAIN entries}
           /\ \A path \in DOMAIN readPack.pack.files :
                 \E k \in DOMAIN entries :
                     entries[k].path = path /\ entries[k].file = readPack.pack.files[path]

\* C25 witness: a read of two entries of 24 bytes and 1 byte succeeded, and
\* the second is located 24 bytes after the index region.
C25_Witness ==
    /\ codecPc = "read"
    /\ readPack.status = "ok"
    /\ Len(readPack.entries) = 2
    /\ readPack.entries[1].file.size = 24
    /\ readPack.entries[2].file.size = 1
    /\ readPack.entries[2].file.start = PositionOf(IndexEnd + 24)
    /\ readPack.data_pos = PositionOf(Len(stream))

\* the stream is shorter than the header its flags declare
HeaderShort ==
    LET extended == Contains(pack_from_preamble(stream).header.bitmask, HAS_EXTENDED_HEADER)
    IN (extended /\ Len(stream) < 44) \/ (~extended /\ Len(stream) < 24)

\* C26: read_pfh4 fails with PackFileHeaderNotComplete exactly when the
\* extended-header flag is set and the stream is shorter than 44 bytes or the
\* flag is clear and the stream is shorter than 24 bytes; otherwise it fails
\* with PackFileIndexesNotComplete whenever the position after the index
\* region exceeds the length of the stream; in both cases no dependency and
\* no file has been parsed.
C26_CompletenessChecks ==
    AfterRead =>
        /\ (readPack.error = "PackFileHeaderNotComplete") <=> HeaderShort
        /\ (~HeaderShort /\ Len(stream) >= HeaderLen /\ IndexEnd > Len(stream))
              => readPack.error = "PackFileIndexesNotComplete"
        /\ readPack.error \in {"PackFileHeaderNotComplete", "PackFileIndexesNotComplete"}
              => /\ readPack.pack.dependencies = <<>>
                 /\ DOMAIN readPack.pack.files = {}

\* C27: with the encrypted-index flag, the size of the k-th file entry of
\* the index, counted from 0, and its timestamp when the index has
\* timestamps, are decrypted with the sequence number files_count - 1 - k;
\* a read that succeeds has decrypted every entry, and a read without the
\* flag has decrypted nothing.
C27_DescendingCounter ==
    (AfterRead /\ Len(stream) >= HeaderLen) =>
        LET bitmask == pack_from_preamble(stream).header.bitmask
            files_count == read_u32(stream, PreambleLen + 8).val
            calls == IF Contains(bitmask, HAS_INDEX_WITH_TIMESTAMPS) THEN 2 ELSE 1
        IN IF Contains(bitmask, HAS_ENCRYPTED_INDEX)
           THEN /\ \A i \in DOMAIN readPack.decrypted :
                      readPack.decrypted[i] = files_count - 1 - ((i - 1) \div calls)
                /\ readPack.status = "ok"
                      => /\ Len(readPack.decrypted) = files_count * calls
                         /\ Len(readPack.entries) = files_count
           ELSE readPack.decrypted = <<>>

\* C27 witness: a read of an index of two entries with timestamps and the
\* encrypted-index flag succeeded, having used the sequence number 1 for the
\* first entry and 0 for the second.
C27_Witness ==
    /\ codecPc = "read"
    /\ readPack.status = "ok"
    /\ Contains(pack.header.bitmask, HAS_ENCRYPTED_INDEX)
    /\ Len(readPack.entries) = 2
    /\ readPack.decrypted = <<1, 1, 0, 0>>

\* C28: when the stream carries the 20 bytes of the extended header that its
\* flags declare, they are not taken for dependency paths or file entries:
\* the read succeeds, the dependencies are those written after the extended
\* header, in their order, and the file entries are those of the file index.
C28_ExtendedHeaderSkipped ==
    codecPc = "read_extended" =>
        /\ readPack.status = "ok"
        /\ readPack.pack.dependencies = pack.dependencies
        /\ DOMAIN readPack.pack.files = DOMAIN pack.files
        /\ \A path \in DOMAIN pack.files :
              readPack.pack.files[path].size = Len(pack.files[path].data)

\* the files of the Pack whose encode step fails
FailingFiles == {path \in DOMAIN pack.files : ~pack.files[path].encodable}

\* C15: if the encode step of a file fails, write_pfh4 returns the error of
\* a file that failed and the output buffer holds no byte: no header, index
\* or data, and no shorter output without the file.
C15_EncodeAbort ==
    (writeOut.status # "none" /\ FailingFiles # {}) =>
        /\ writeOut.status = "err"
        /\ \E path \in FailingFiles : writeOut.error = <<"EncodeError", path>>
        /\ stream = <<>>

\* C15 witness: a write failed on a Pack with dependencies, a file that
\* encodes to some bytes and a file that does not encode.
C15_Witness ==
    /\ writeOut.status = "err"
    /\ pack.dependencies # <<>>
    /\ \E path \in DOMAIN pack.files :
          pack.files[path].encodable /\ pack.files[path].data # <<>>
    /\ FailingFiles # {}

\* C16: whenever read_pfh4 returns an error, the Pack it was called on holds
\* no dependency and no file added by the call; it was called on a Pack
\* without dependencies and without files.
C16_NoPartialPack ==
    (codecPc \in {"read", "read_tampered"} /\ readPack.status = "err") =>
        /\ readPack.pack.dependencies = <<>>
        /\ DOMAIN readPack.pack.files = {}

\* the concatenation of a sequence of byte sequences
RECURSIVE Concat(_)
Concat(parts) == IF parts = <<>> THEN <<>> ELSE parts[1] \o Concat(Tail(parts))

\* the sum of a sequence of numbers
RECURSIVE Sum(_)
Sum(ns) == IF ns = <<>> THEN 0 ELSE ns[1] + Sum(Tail(ns))

\* the orders of the paths of the Pack in which the lower-cased paths ascend
AscendingOrders ==
    {o \in [1..Cardinality(DOMAIN pack.files) -> DOMAIN pack.files] :
        /\ \A i, j \in DOMAIN o : i # j => o[i] # o[j]
        /\ \A i, j \in DOMAIN o :
              i < j => StrCmp(to_lowercase(o[i]), to_lowercase(o[j])) <= 0}

TimestampsIndexed == Contains(pack.header.bitmask, HAS_INDEX_WITH_TIMESTAMPS)

\* the index entry the layout gives a file: size, optional timestamp, path, zero
LayoutEntry(path) ==
    write_u32(Len(pack.files[path].data))
    \o (IF TimestampsIndexed THEN write_u32(pack.files[path].timestamp.lower) ELSE <<>>)
    \o path \o <<0>>

EntryLength(path) == (IF TimestampsIndexed THEN 9 ELSE 5) + Len(path)

\* C17: the output of write_pfh4 is the 28-byte header, the dependency index,
\* the file index and the file data, in this order and with nothing between
\* them; the entries and the data blobs follow one ascending order of the
\* lower-cased paths, the i-th blob being the data of the file of the i-th
\* entry and the size of the entry its length; the file count and the
\* file-index size of the header are the number of entries and the sum of
\* their lengths, 5 + path length each, 9 + path length with timestamps.
C17_EncodeLayout ==
    (writeOut.status = "ok" /\ codecPc = "written") =>
        \E o \in AscendingOrders :
            LET deps == Concat([i \in DOMAIN pack.dependencies |->
                                    pack.dependencies[i] \o <<0>>])
                entries == Concat([i \in DOMAIN o |-> LayoutEntry(o[i])])
                blobs == Concat([i \in DOMAIN o |-> pack.files[o[i]].data])
            IN /\ Len(stream) = 28 + Len(deps) + Len(entries) + Len(blobs)
               /\ Slice(stream, 28, 28 + Len(deps)) = deps
               /\ Slice(stream, 28 + Len(deps), 28 + Len(deps) + Len(entries)) = entries
               /\ Slice(stream, 28 + Len(deps) + Len(entries), Len(stream)) = blobs
               /\ read_u32(stream, 16).val = Len(o)
               /\ read_u32(stream, 20).val = Sum([i \in DOMAIN o |-> EntryLength(o[i])])
               /\ Len(entries) = Sum([i \in DOMAIN o |-> EntryLength(o[i])])

\* C17 witness: a Pack with a dependency, indexed timestamps and two files
\* of different lower-cased paths and different data has been written.
C17_Witness ==
    /\ writeOut.status = "ok"
    /\ codecPc = "written"
    /\ TimestampsIndexed
    /\ pack.dependencies # <<>>
    /\ \E p, q \in DOMAIN pack.files :
          /\ to_lowercase(p) # to_lowercase(q)
          /\ pack.files[p].data = <<1>>
          /\ pack.files[q].data = LongData

\* C18: two Packs with equal header, dependencies and files give the same
\* bytes: the bytes written are those of every order in which the sort may
\* leave the files of this Pack, also when paths differ only in letter case.
C18_EncodeDeterminism ==
    (writeOut.status = "ok" /\ codecPc = "written") =>
        \A sorted_files \in SortedFiles(pack.files) :
            write_pfh4(pack, sorted_files) = stream

=============================================================================
